---- MODULE Spec2Model ----
(***************************************************************************)
(* Model of gosqs: the consumer's per-envelope run protocol with its       *)
(* lease-extension goroutine and completion-signal goroutines, the handler *)
(* registry with adapter composition, and the publisher's two send paths.  *)
(***************************************************************************)
EXTENDS Integers, Sequences, FiniteSets, TLC

VARIABLES
    \* consumer struct
    VisibilityTimeout,  \* consumer.VisibilityTimeout
    extensionLimit,     \* consumer.extensionLimit
    handlers,           \* consumer.handlers: route -> composed handler
    regArgs,            \* arguments of the last RegisterHandler call per route
    \* the envelope (message struct)
    mRoute,             \* m.Route(), NoMessage before the receive
    mErr,               \* m.err: buffered channel of capacity 1
    pending,            \* goroutines of ErrorResponse/Success not yet past the send
    \* run, executed by a worker
    runPc,
    runResult,
    err,                \* result of the handler call in run, "none" before it returns
    trace,              \* closures entered and left by the handler call
    \* extend goroutine
    extPc,
    count,
    extension,
    \* backend calls and log
    extendCalls,        \* VisibilityTimeout of each ChangeMessageVisibility call
    lateExtends,        \* wake-ups after the handler returned that went on to extend
    deleteCalls,        \* outcome of each DeleteMessage call
    logged,             \* errors handed to the consumer's logger
    \* publisher
    callerPc,           \* the caller of the publisher's operations
    pubOps,             \* number of operations the caller has called
    tasks,              \* goroutines started by go p.send / go p.sendDirectMessage
    \* Consume: the poll loop and the worker pool
    workerPool,         \* consumer.workerPool
    recovery,           \* the function given to WithRecovery
    pollPc,             \* position of Consume
    lastPoll,           \* outcome of the latest ReceiveMessage call
    recv,               \* the messages received, in the order of output.Messages
    sent,               \* how many of them went into the jobs channel
    wPc,                \* position of each worker goroutine
    wMsg,               \* the envelope each worker took from the jobs channel
    results,            \* per received message: what run did with it
    printed,            \* errors handed to the logger by Consume and the workers
    \* Config
    Attributes,         \* Config.Attributes
    lastCall,           \* the latest NewCustomAttribute call and the error it returned
    config,             \* the Config given to NewConsumer
    \* NewConsumer and the consumer's logger
    newPc,              \* "config" before NewConsumer was called, "built" after
    logger,             \* consumer.logger
    logOut,             \* the loggers that received output of the consumer
    \* context.Context and the dispatcher in it
    ctx,                \* the context: the WithValue calls made on it, innermost last
    lookup,             \* the latest Dispatcher / MustDispatcher call and its result
    \* sqstesting
    stubPublisher,      \* StubPublisher
    stubConsumer,       \* StubConsumer
    stubCalls           \* the calls made on the stubs, in call order

cvars == <<VisibilityTimeout, extensionLimit, handlers, regArgs, mRoute, mErr,
           pending, runPc, runResult, err, trace, extPc, count, extension,
           extendCalls, lateExtends, deleteCalls, logged>>

pvars == <<callerPc, pubOps, tasks>>

poolvars == <<workerPool, recovery, pollPc, lastPoll, recv, sent, wPc, wMsg, results,
              printed>>

cfgvars == <<Attributes, lastCall>>

newvars == <<config, newPc, logger, logOut>>

ctxvars == <<ctx, lookup>>

stubvars == <<stubPublisher, stubConsumer, stubCalls>>

libvars == <<newvars, ctxvars, stubvars>>

vars == <<cvars, pvars, poolvars, cfgvars, libvars>>

----
\* Bounds of the model

MaxAdapters == 2
MaxLimit == 2
MaxPubOps == 1
MaxSendCalls == 8

\* Values of Config.VisibilityTimeout: the one of TestRun/renew_visibility and the default
VisibilityTimeouts == {11, 30}

\* Routes handlers are registered under, and routes of received messages
RegisteredRoutes == {"post_published", "post_event"}
Routes == RegisteredRoutes \cup {"no_event"}

\* The handler functions of the consumer tests
HandlerFns == {"test", "err"}

Adapters == {"WithMiddleware", "WithRecovery"}

NoMessage == "<none>"

RECURSIVE SeqsUpTo(_, _)
SeqsUpTo(S, n) ==
    IF n = 0 THEN {<<>>}
    ELSE LET shorter == SeqsUpTo(S, n - 1)
         IN shorter \cup {Append(s, x) : s \in {t \in shorter : Len(t) = n - 1}, x \in S}

AdapterLists == SeqsUpTo(Adapters, MaxAdapters)

----
\* Handlers and adapters

\* test returns nil, err returns ErrGetMessage; any other handler panics.  A
\* handler gets the envelope as a Message, which has neither ErrorResponse nor
\* Success: the completion signal is written by run alone
HandlerResult(h) ==
    CASE h = "test" -> "nil"
      [] h = "err" -> "ErrGetMessage"
      [] OTHER -> "panic"

\* What the function f given to WithMiddleware returns
MiddlewareResults == {"nil", "ErrNoRoute"}

\* An adapter applied to a handler: the closure of the adapter around the handler.
\* A handler value is the sequence of its closures, outermost first; the last
\* element is the handler function itself.
ApplyAdapter(a, h) == <<a>> \o h

\* The loop of RegisterHandler from index i down to the first adapter (1-based here)
RECURSIVE ComposeFrom(_, _, _)
ComposeFrom(h, adapters, i) ==
    IF i < 1 THEN h
    ELSE ComposeFrom(ApplyAdapter(adapters[i], h), adapters, i - 1)

\* The same loop run from the first adapter up to the last
RECURSIVE ComposeUpFrom(_, _, _)
ComposeUpFrom(h, adapters, i) ==
    IF i > Len(adapters) THEN h
    ELSE ComposeUpFrom(ApplyAdapter(adapters[i], h), adapters, i + 1)

ComposeForward(h, adapters) == ComposeUpFrom(h, adapters, 1)

\* for i := len(adapters) - 1; i >= 0; i-- { h = adapters[i](h) }
Compose(h, adapters) == ComposeFrom(h, adapters, Len(adapters))

Ev(op, who) == [op |-> op, who |-> who]

\* What a call of the composed handler does up to the call of the handler function:
\* WithMiddleware calls f and then fn; WithRecovery defers recovery and calls fn.
RECURSIVE EnterTrace(_)
EnterTrace(h) ==
    IF Len(h) = 1 THEN <<Ev("call", h[1])>>
    ELSE <<Ev("enter", Head(h))>>
         \o (IF Head(h) = "WithMiddleware" THEN <<Ev("call", "f")>> ELSE <<>>)
         \o EnterTrace(Tail(h))

\* What it does from the return of the handler function on
RECURSIVE ExitTrace(_)
ExitTrace(h) ==
    IF Len(h) = 1 THEN <<Ev("return", h[1])>>
    ELSE ExitTrace(Tail(h))
         \o (IF Head(h) = "WithRecovery" THEN <<Ev("call", "recovery")>> ELSE <<>>)
         \o <<Ev("exit", Head(h))>>

\* The closure of WithMiddleware returning the error of f instead of calling fn
MiddlewareResultOfF(fres, inner) == IF fres # "nil" THEN fres ELSE inner

\* WithMiddleware: f(ctx, m); return fn(ctx, m) -- the result of f is dropped
MiddlewareResult(fres, inner) == inner

\* The panic going on through the closure of WithRecovery
RecoveryResultRethrow(rec, inner) == inner

\* WithRecovery: defer recovery(); return fn(ctx, m) -- a panic of fn that the
\* deferred recovery recovers makes the closure return the zero error, nil
RecoveryResult(rec, inner) == IF inner = "panic" /\ rec = "recover" THEN "nil" ELSE inner

\* The result of the composed handler when f returns fres and the function
\* given to WithRecovery is rec; a panic of fn leaves the closure of
\* WithMiddleware as it is
RECURSIVE ComposedResult(_, _, _)
ComposedResult(h, fres, rec) ==
    IF Len(h) = 1 THEN HandlerResult(h[1])
    ELSE LET inner == ComposedResult(Tail(h), fres, rec)
         IN  IF Head(h) = "WithMiddleware"
             THEN IF inner = "panic" THEN inner ELSE MiddlewareResult(fres, inner)
             ELSE RecoveryResult(rec, inner)

\* What the call does from a panic of the handler function on: the closures are
\* left by the panic, each deferred recovery runs, and from the closure whose
\* recovery recovers outwards the closures return
RECURSIVE UnwindTrace(_, _, _)
UnwindTrace(h, fres, rec) ==
    IF Len(h) = 1 THEN <<Ev("panic", h[1])>>
    ELSE UnwindTrace(Tail(h), fres, rec)
         \o (IF Head(h) = "WithRecovery" THEN <<Ev("call", "recovery")>> ELSE <<>>)
         \o (IF ComposedResult(h, fres, rec) = "panic" THEN <<>>
             ELSE <<Ev("exit", Head(h))>>)

ReturnTrace(h, fres, rec) ==
    IF HandlerResult(h[Len(h)]) = "panic" THEN UnwindTrace(h, fres, rec)
    ELSE ExitTrace(h)

----
\* The consumer before Consume is called

NoPoll == [failed |-> FALSE, n |-> 0]

\* Consume has not been called: no worker, nothing received
NoPool ==
    /\ workerPool = 30
    /\ recovery = "noop"
    /\ pollPc = "init"
    /\ lastPoll = NoPoll
    /\ recv = <<>>
    /\ sent = 0
    /\ wPc = <<>>
    /\ wMsg = <<>>
    /\ results = <<>>
    /\ printed = {}

\* The zero Config as far as NewConsumer reads it
ZeroConfig ==
    [VisibilityTimeout |-> 0, WorkerPool |-> 0,
     ExtensionLimit |-> [isNil |-> TRUE, v |-> 0], Logger |-> "nil"]

\* A consumer NewConsumer returned and that logged nothing yet: a Config
\* without a Logger that gives the consumer its fields
Constructed ==
    /\ config = [ZeroConfig EXCEPT
                    !.VisibilityTimeout = VisibilityTimeout,
                    !.WorkerPool = workerPool,
                    !.ExtensionLimit = [isNil |-> FALSE, v |-> extensionLimit]]
    /\ newPc = "built"
    /\ logger = "default"
    /\ logOut = {}

\* No Dispatcher or MustDispatcher call made
NoLookup == [fn |-> "none", ctx |-> <<>>, p |-> "nil", err |-> "nil", panicked |-> FALSE]

\* context.Background()
NoContext ==
    /\ ctx = <<>>
    /\ lookup = NoLookup

\* NewStubDispatcher() and NewStubConsumer(), no call made on them
NoStubs ==
    /\ stubPublisher = [DirectMessages |-> <<>>, DispatcherMessages |-> <<>>,
                        EventList |-> <<>>]
    /\ stubConsumer = [DirectMessages |-> <<>>, EventList |-> <<>>]
    /\ stubCalls = <<>>

NoLib == Constructed /\ NoContext /\ NoStubs

----
\* Config and its custom attributes

MaxAttrs == 2

\* DataTypeNumber and DataTypeString
DataTypes == {"Number", "String"}

\* Titles of custom attributes
Titles == {"correlationId", "route"}

\* Values passed to NewCustomAttribute: ints, strings, and a value of another type
NoValue == [type |-> "none", i |-> 0, s |-> ""]
AttributeValues ==
    {[type |-> "int", i |-> n, s |-> ""] : n \in {7, -15}}
    \cup {[type |-> "string", i |-> 0, s |-> "abc"], [type |-> "float64", i |-> 0, s |-> ""]}

Digit(d) ==
    CASE d = 0 -> "0" [] d = 1 -> "1" [] d = 2 -> "2" [] d = 3 -> "3" [] d = 4 -> "4"
      [] d = 5 -> "5" [] d = 6 -> "6" [] d = 7 -> "7" [] d = 8 -> "8" [] OTHER -> "9"

RECURSIVE Digits(_)
Digits(n) == IF n < 10 THEN <<Digit(n)>> ELSE Append(Digits(n \div 10), Digit(n % 10))

\* strconv.Itoa: the decimal digits, after a minus sign for a negative number;
\* a string is the sequence of its parts
Itoa(n) == IF n < 0 THEN <<"-">> \o Digits(0 - n) ELSE Digits(n)

\* Any value taken for one of the right type
ValueOkAlways(dataType, value) == TRUE

\* val, ok := value.(int) for DataTypeNumber, val, ok := value.(string) otherwise
ValueOk(dataType, value) ==
    IF dataType = "Number" THEN value.type = "int" ELSE value.type = "string"

\* customAttribute{title, dataType.String(), strconv.Itoa(val)} and
\* customAttribute{title, dataType.String(), val}
customAttribute(dataType, title, value) ==
    [Title |-> title, DataType |-> dataType,
     Value |-> IF dataType = "Number" THEN Itoa(value.i) ELSE <<value.s>>]

\* What NewCustomAttribute(dataType, title, value) leaves in c.Attributes and returns
CustomAttributeResult(attrs, dataType, title, value) ==
    IF ValueOk(dataType, value)
    THEN [Attributes |-> Append(attrs, customAttribute(dataType, title, value)),
          err |-> "nil"]
    ELSE [Attributes |-> attrs, err |-> "ErrMarshal"]

NoCall == [dataType |-> "", title |-> "", value |-> NoValue, err |-> "none"]

\* A Config on which NewCustomAttribute was not called
NoConfig ==
    /\ Attributes = <<>>
    /\ lastCall = NoCall

\* c.NewCustomAttribute(dataType, title, value)
NewCustomAttribute ==
    /\ Len(Attributes) < MaxAttrs
    /\ \E dataType \in DataTypes, title \in Titles, value \in AttributeValues :
         LET res == CustomAttributeResult(Attributes, dataType, title, value)
         IN  /\ Attributes' = res.Attributes
             /\ lastCall' = [dataType |-> dataType, title |-> title, value |-> value,
                             err |-> res.err]
    /\ UNCHANGED <<cvars, pvars, poolvars, libvars>>

\* The Configs given to NewPublisher and NewConsumer: without custom attributes,
\* with a correlation id, and with a number and an attribute titled route
Configs ==
    {<<>>,
     CustomAttributeResult(<<>>, "String", "correlationId",
                           [type |-> "string", i |-> 0, s |-> "abc"]).Attributes,
     CustomAttributeResult(
         CustomAttributeResult(<<>>, "Number", "correlationId",
                               [type |-> "int", i |-> 7, s |-> ""]).Attributes,
         "String", "route", [type |-> "string", i |-> 0, s |-> "abc"]).Attributes}

InitCfg ==
    /\ VisibilityTimeout = 30
    /\ extensionLimit = 2
    /\ handlers = <<>>
    /\ regArgs = <<>>
    /\ mRoute = NoMessage
    /\ mErr = <<>>
    /\ pending = <<>>
    /\ runPc = "idle"
    /\ runResult = "none"
    /\ err = "none"
    /\ trace = <<>>
    /\ extPc = "none"
    /\ count = 0
    /\ extension = 0
    /\ extendCalls = <<>>
    /\ lateExtends = 0
    /\ deleteCalls = <<>>
    /\ logged = {}
    /\ callerPc = "running"
    /\ pubOps = 0
    /\ tasks = <<>>
    /\ NoPool
    /\ NoConfig
    /\ NoLib

NextCfg == NewCustomAttribute

SpecCfg == InitCfg /\ [][NextCfg]_vars

\* C28: a NewCustomAttribute call with an int for Number or a string for String
\* returns nil and appends the attribute with its title and datatype to
\* Config.Attributes; a call with a value of another type returns an error and
\* leaves Config.Attributes as it was.
C28_AppendOnlyWhenTypesAgree ==
    [][ LET call == lastCall'
            agrees == \/ call.dataType = "Number" /\ call.value.type = "int"
                      \/ call.dataType = "String" /\ call.value.type = "string"
        IN  /\ agrees =>
                 /\ call.err = "nil"
                 /\ Len(Attributes') = Len(Attributes) + 1
                 /\ SubSeq(Attributes', 1, Len(Attributes)) = Attributes
                 /\ Attributes'[Len(Attributes')].Title = call.title
                 /\ Attributes'[Len(Attributes')].DataType = call.dataType
                 /\ Attributes'[Len(Attributes')].Value =
                        (IF call.value.type = "int" THEN Itoa(call.value.i)
                         ELSE <<call.value.s>>)
            /\ ~agrees =>
                 /\ call.err # "nil"
                 /\ Attributes' = Attributes ]_vars

C28_Witness ==
    /\ lastCall.err = "ErrMarshal"
    /\ lastCall.dataType = "Number"
    /\ lastCall.value.type = "string"
    /\ Len(Attributes) = 1
    /\ Attributes[1].Value = <<"-", "1", "5">>

----
\* Consumer

\* NewConsumer: the consumer after construction, no handler registered
Init ==
    /\ VisibilityTimeout \in VisibilityTimeouts
    /\ extensionLimit \in 0..MaxLimit
    /\ handlers = <<>>
    /\ regArgs = <<>>
    /\ mRoute = NoMessage
    /\ mErr = <<>>
    /\ pending = <<>>
    /\ runPc = "idle"
    /\ runResult = "none"
    /\ err = "none"
    /\ trace = <<>>
    /\ extPc = "none"
    /\ count = 0
    /\ extension = 0
    /\ extendCalls = <<>>
    /\ lateExtends = 0
    /\ deleteCalls = <<>>
    /\ logged = {}
    /\ callerPc = "running"
    /\ pubOps = 0
    /\ tasks = <<>>
    /\ NoPool
    /\ NoConfig
    /\ NoLib

\* c.handlers[name] = h wrapped in the adapters
Put(f, k, v) == [x \in (DOMAIN f) \cup {k} |-> IF x = k THEN v ELSE f[x]]

RegisterHandler ==
    /\ runPc = "idle"
    /\ \E name \in RegisteredRoutes, h \in HandlerFns, adapters \in AdapterLists :
         /\ handlers' = Put(handlers, name, Compose(<<h>>, adapters))
         /\ regArgs' = Put(regArgs, name, [h |-> h, adapters |-> adapters, f |-> "nil"])
    /\ UNCHANGED <<pvars, poolvars, cfgvars, libvars>>
    /\ UNCHANGED <<VisibilityTimeout, extensionLimit, mRoute, mErr, pending, runPc,
                   runResult, err, trace, extPc, count, extension, extendCalls,
                   lateExtends, deleteCalls, logged>>

\* A worker takes the envelope newMessage(m) from the jobs channel and calls run
worker ==
    /\ runPc = "idle"
    /\ \E r \in Routes : mRoute' = r
    /\ mErr' = <<>>
    /\ runPc' = "lookup"
    /\ UNCHANGED <<pvars, poolvars, cfgvars, libvars>>
    /\ UNCHANGED <<VisibilityTimeout, extensionLimit, handlers, regArgs, pending,
                   runResult, err, trace, extPc, count, extension, extendCalls,
                   lateExtends, deleteCalls, logged>>

\* A route without a handler reported as an error instead of being consumed
AfterLookupNoRoute(ok) == IF ok THEN "invoke" ELSE "done"

\* if h, ok := c.handlers[m.Route()]; ok { ... }  return c.delete(m)
AfterLookup(ok) == IF ok THEN "invoke" ELSE "delete"

\* The call of the handler without the extend goroutine
ExtendNotStarted == "none"

\* go c.extend(ctx, m): the goroutine is at the head of its loop
ExtendStarted == "loop"

\* run: the lookup of the handler; with a handler, go c.extend(ctx, m)
run_lookup ==
    /\ runPc = "lookup"
    /\ runPc' = AfterLookup(mRoute \in DOMAIN handlers)
    /\ IF mRoute \in DOMAIN handlers
       THEN /\ extPc' = ExtendStarted
            /\ count' = 0
            /\ extension' = VisibilityTimeout
       ELSE UNCHANGED <<extPc, count, extension>>
    /\ UNCHANGED <<pvars, poolvars, cfgvars, libvars>>
    /\ UNCHANGED <<VisibilityTimeout, extensionLimit, handlers, regArgs, mRoute, mErr,
                   pending, runResult, err, trace, extendCalls, lateExtends,
                   deleteCalls, logged>>

\* Some registered handler, whatever the route
LookupAny(hs, route) == hs[CHOOSE r \in DOMAIN hs : TRUE]

\* h, ok := c.handlers[m.Route()]
Lookup(hs, route) == hs[route]

\* run: h(ctx, m) is called and runs through the adapters and the body of the
\* handler function, up to its return
run_invoke ==
    /\ runPc = "invoke"
    /\ trace' = trace \o EnterTrace(Lookup(handlers, mRoute))
    /\ runPc' = "handler"
    /\ UNCHANGED <<pvars, poolvars, cfgvars, libvars>>
    /\ UNCHANGED <<VisibilityTimeout, extensionLimit, handlers, regArgs, mRoute, mErr,
                   pending, runResult, err, extPc, count, extension, extendCalls,
                   lateExtends, deleteCalls, logged>>

\* The message deleted whatever the handler returned
AfterHandlerAlwaysDelete(e) == "delete"

\* if err := h(ctx, m); err != nil { return m.ErrorResponse(ctx, err) }
AfterHandler(e) == IF e # "nil" THEN "done" ELSE "delete"

\* worker: if err := c.run(m); err != nil { c.Logger().Println(err.Error()) }:
\* the log l after run returned e to the worker
WorkerLog(l, e) == IF e # "nil" THEN l \cup {e} ELSE l

\* Two goroutines started that send on m.err
SignalTwice(v) == pending' = pending \o <<v, v>>

\* m.ErrorResponse(ctx, err) and m.Success(ctx): go func() { m.err <- v }()
Signal(v) == pending' = Append(pending, v)

\* run: the handler returns; an error goes to ErrorResponse and is returned
\* to the worker, which logs it; nil goes to Success and run goes on to
\* c.delete(m)
run_return ==
    /\ runPc = "handler"
    /\ LET h == Lookup(handlers, mRoute)
           r == ComposedResult(h, regArgs[mRoute].f, recovery)
       IN  /\ trace' = trace \o ReturnTrace(h, regArgs[mRoute].f, recovery)
           /\ IF r = "panic"
              THEN /\ runPc' = "panic"
                   /\ UNCHANGED <<err, pending, runResult, logged>>
              ELSE /\ err' = r
                   /\ Signal(err')
                   /\ runPc' = AfterHandler(err')
                   /\ runResult' = IF runPc' = "done" THEN err' ELSE runResult
                   /\ logged' = IF runPc' = "done" THEN WorkerLog(logged, err')
                                 ELSE logged
    /\ UNCHANGED <<pvars, poolvars, cfgvars, libvars>>
    /\ UNCHANGED <<VisibilityTimeout, extensionLimit, handlers, regArgs, mRoute, mErr,
                   extPc, count, extension, extendCalls, lateExtends,
                   deleteCalls>>

\* A failed DeleteMessage call made again
AfterDeleteRetry(ok) == IF ok THEN "done" ELSE "delete"

\* delete returns after the one call, whatever its outcome, and so does run
AfterDelete(ok) == "done"

\* delete: one DeleteMessage call; its failure is logged by delete and
\* returned through run to the worker, which logs what run returned
delete ==
    /\ runPc = "delete"
    /\ \E ok \in BOOLEAN :
         /\ deleteCalls' = Append(deleteCalls, ok)
         /\ runResult' = IF ok THEN "nil" ELSE "ErrUnableToDelete"
         /\ runPc' = AfterDelete(ok)
         /\ LET l == IF ok THEN logged ELSE logged \cup {"ErrUnableToDelete"}
            IN  logged' = IF runPc' = "done" THEN WorkerLog(l, runResult') ELSE l
    /\ UNCHANGED <<pvars, poolvars, cfgvars, libvars>>
    /\ UNCHANGED <<VisibilityTimeout, extensionLimit, handlers, regArgs, mRoute, mErr,
                   pending, err, trace, extPc, count, extension, extendCalls,
                   lateExtends>>

\* run has returned to the worker
RunReturned == runPc = "done"

\* A panic that left run ended the process, and its goroutines with it
RunAlive == runPc # "panic"

\* make(chan error, 1) in newMessage
ErrBuffer == 1

\* make(chan error): without a buffer a send waits for a receiver, and nothing
\* is ever held by the channel
ErrHasRoomUnbuffered == FALSE

\* m.err <- v completes while the buffer of m.err holds fewer than cap values
ErrHasRoom == Len(mErr) < ErrBuffer

\* The goroutine of ErrorResponse/Success performs m.err <- v; the send blocks
\* while the one-slot buffer is full
signal_send ==
    /\ RunAlive
    /\ pending # <<>>
    /\ ErrHasRoom
    /\ mErr' = Append(mErr, Head(pending))
    /\ pending' = Tail(pending)
    /\ UNCHANGED <<pvars, poolvars, cfgvars, libvars>>
    /\ UNCHANGED <<VisibilityTimeout, extensionLimit, handlers, regArgs, mRoute,
                   runPc, runResult, err, trace, extPc, count, extension, extendCalls,
                   lateExtends, deleteCalls, logged>>

LimitReachedLate(n, limit) == n > limit

\* if count >= c.extensionLimit
LimitReached(n, limit) == n >= limit

\* extend: the head of the loop, the limit check and count++
extend_loop ==
    /\ RunAlive
    /\ extPc = "loop"
    /\ IF LimitReached(count, extensionLimit)
       THEN /\ logged' = logged \cup {"ErrMessageProcessing"}
            /\ extPc' = "done"
            /\ UNCHANGED count
       ELSE /\ count' = count + 1
            /\ extPc' = "sleep"
            /\ UNCHANGED logged
    /\ UNCHANGED <<pvars, poolvars, cfgvars, libvars>>
    /\ UNCHANGED <<VisibilityTimeout, extensionLimit, handlers, regArgs, mRoute, mErr,
                   pending, runPc, runResult, err, trace, extension, extendCalls,
                   lateExtends, deleteCalls>>

NextExtensionDoubling(e, vt) == e * 2

\* extension = extension + int64(c.VisibilityTimeout)
NextExtension(e, vt) == e + vt

\* The handler of the envelope has returned to run
HandlerReturned == err # "none"

\* extend: the sleep is over; select on m.err with a default branch
extend_select ==
    /\ RunAlive
    /\ extPc = "sleep"
    /\ IF mErr # <<>>
       THEN /\ mErr' = Tail(mErr)
            /\ extPc' = "done"
            /\ UNCHANGED extension
       ELSE /\ extension' = NextExtension(extension, VisibilityTimeout)
            /\ extPc' = "call"
            /\ UNCHANGED mErr
    /\ lateExtends' = lateExtends + (IF extPc' = "call" /\ HandlerReturned THEN 1 ELSE 0)
    /\ UNCHANGED <<pvars, poolvars, cfgvars, libvars>>
    /\ UNCHANGED <<VisibilityTimeout, extensionLimit, handlers, regArgs, mRoute,
                   pending, runPc, runResult, err, trace, count, extendCalls,
                   deleteCalls, logged>>

\* The loop going on after a failed ChangeMessageVisibility call
AfterExtendCallGoOn(ok) == "loop"

\* if err != nil { log; return }
AfterExtendCall(ok) == IF ok THEN "loop" ELSE "done"

\* extend: the ChangeMessageVisibility call; a failure is logged and ends the loop
extend_call ==
    /\ RunAlive
    /\ extPc = "call"
    /\ extendCalls' = Append(extendCalls, extension)
    /\ \E ok \in BOOLEAN :
         /\ logged' = IF ok THEN logged ELSE logged \cup {"ErrUnableToExtend"}
         /\ extPc' = AfterExtendCall(ok)
    /\ UNCHANGED <<pvars, poolvars, cfgvars, libvars>>
    /\ UNCHANGED <<VisibilityTimeout, extensionLimit, handlers, regArgs, mRoute, mErr,
                   pending, runPc, runResult, err, trace, count, extension, lateExtends,
                   deleteCalls>>

Next ==
    \/ RegisterHandler
    \/ worker
    \/ run_lookup
    \/ run_invoke
    \/ run_return
    \/ delete
    \/ signal_send
    \/ extend_loop
    \/ extend_select
    \/ extend_call

Spec == Init /\ [][Next]_vars

----
\* Properties of the run protocol

HasHandler == mRoute # NoMessage /\ mRoute \in DOMAIN handlers
NoHandler == mRoute # NoMessage /\ mRoute \notin DOMAIN handlers

\* C1 as stated: once run is over for an envelope whose handler has returned,
\* with nil or with an error, a delete call has been issued for it.
C1_DeleteWhateverHandlerReturns ==
    (RunReturned /\ err # "none") => Len(deleteCalls) >= 1

\* C1 amended: once run is over for an envelope whose handler has returned, a
\* delete call has been issued exactly when the handler returned nil; after a
\* handler error run returns that error and has issued no delete call.
C1_DeleteFollowsSuccessOnly ==
    (RunReturned /\ err # "none") =>
        /\ (err = "nil") => Len(deleteCalls) = 1
        /\ (err # "nil") => (deleteCalls = <<>> /\ runResult = err)

C1_Witness ==
    /\ RunReturned
    /\ err = "ErrGetMessage"
    /\ runResult = "ErrGetMessage"
    /\ deleteCalls = <<>>

\* C2: a delete call is issued only for an envelope without a handler or one
\* whose handler returned nil; while the handler's result is an error, no delete
\* call has been issued.
C2_DeleteOnlyWithoutError ==
    /\ deleteCalls # <<>> => (NoHandler \/ err = "nil")
    /\ err \notin {"none", "nil"} => deleteCalls = <<>>

C2_Witness ==
    /\ HasHandler
    /\ err = "nil"
    /\ Len(deleteCalls) = 1

\* C3: for an envelope whose route has no handler, no handler is invoked, no
\* extend goroutine is started, no completion signal is written, exactly one
\* delete call is issued by the end of run, and run returns nil when it succeeds.
C3_NoHandlerIsConsumed ==
    NoHandler =>
        /\ trace = <<>>
        /\ err = "none"
        /\ extPc = "none" /\ extendCalls = <<>>
        /\ pending = <<>> /\ mErr = <<>>
        /\ Len(deleteCalls) <= 1
        /\ RunReturned => /\ Len(deleteCalls) = 1
                          /\ deleteCalls[1] => runResult = "nil"

C3_Witness ==
    /\ NoHandler
    /\ DOMAIN handlers # {}
    /\ RunReturned
    /\ deleteCalls = <<TRUE>>
    /\ runResult = "nil"

IsHandlerCall(e) == e.op = "call" /\ e.who \in HandlerFns
IsEnter(e) == e.op = "enter"
IsExit(e) == e.op = "exit"
Who(s) == [i \in DOMAIN s |-> s[i].who]
Reverse(s) == [i \in DOMAIN s |-> s[Len(s) + 1 - i]]

Invoked == HasHandler /\ runPc \in {"handler", "delete", "done"}

\* C4: once run has called the handler of an envelope with a registered route,
\* exactly one handler function has been called, and it is the one registered
\* for that route, not one registered under another route.
C4_HandlerOfTheRouteOnce ==
    Invoked => Who(SelectSeq(trace, IsHandlerCall)) = <<regArgs[mRoute].h>>

C4_Witness ==
    /\ Invoked
    /\ RunReturned
    /\ \E r \in DOMAIN regArgs : r # mRoute /\ regArgs[r].h # regArgs[mRoute].h
    /\ Who(SelectSeq(trace, IsHandlerCall)) = <<regArgs[mRoute].h>>

\* C5: a call of the handler registered with adapters a1..ak enters the
\* adapters in the order a1..ak, all before the handler function runs, and
\* leaves them in the order ak..a1, all after the handler function returned.
C5_FirstAdapterOutermost ==
    Invoked =>
        LET adapters == regArgs[mRoute].adapters
            k == Len(adapters)
        IN  /\ Who(SelectSeq(trace, IsEnter)) = adapters
            /\ \A i, j \in DOMAIN trace :
                 (IsEnter(trace[i]) /\ IsHandlerCall(trace[j])) => i < j
            /\ runPc \in {"delete", "done"} =>
                 /\ Who(SelectSeq(trace, IsExit)) = Reverse(adapters)
                 /\ \A i, j \in DOMAIN trace :
                      (IsHandlerCall(trace[i]) /\ IsExit(trace[j])) => i < j

C5_Witness ==
    /\ Invoked
    /\ RunReturned
    /\ regArgs[mRoute].adapters = <<"WithMiddleware", "WithRecovery">>
    /\ Who(SelectSeq(trace, IsEnter)) = <<"WithMiddleware", "WithRecovery">>
    /\ Who(SelectSeq(trace, IsExit)) = <<"WithRecovery", "WithMiddleware">>

\* C6: at most extensionLimit extend-lease calls are issued for the envelope,
\* and each requests a strictly larger duration than the one before.
C6_ExtensionsBoundedAndIncreasing ==
    /\ Len(extendCalls) <= extensionLimit
    /\ \A k \in 1..(Len(extendCalls) - 1) : extendCalls[k] < extendCalls[k + 1]

C6_Witness ==
    /\ extensionLimit >= 2
    /\ Len(extendCalls) = extensionLimit
    /\ extendCalls[1] < extendCalls[2]

\* C7: the k-th extend-lease call requests exactly V * (k + 1), so no call
\* requests more than (L + 1) * V, which is 3 * V with the default limit 2.
C7_KthExtensionIsVTimesKPlus1 ==
    /\ \A k \in DOMAIN extendCalls :
         /\ extendCalls[k] = VisibilityTimeout * (k + 1)
         /\ extendCalls[k] <= (extensionLimit + 1) * VisibilityTimeout
    /\ extensionLimit = 2 => \A k \in DOMAIN extendCalls :
                               extendCalls[k] <= 3 * VisibilityTimeout

C7_Witness ==
    /\ extensionLimit = 2
    /\ Len(extendCalls) = 2
    /\ extendCalls[2] = 3 * VisibilityTimeout

\* C8 as stated: once the handler of an envelope has returned, every wake-up of
\* the extend goroutine finds the completion signal and ends the loop; none
\* goes on to an extend-lease call.
C8_NoExtendAfterHandlerReturned == lateExtends = 0

----
\* Publisher

maxRetryCount == 5

\* Notifier.ModelName() of the entities published
ModelNames == {"post", "sample"}

\* Events passed to Dispatch and to Message, queues passed to Message
DispatchEvents == {"some_other_event"}
MessageEvents == {"custom_message"}
Queues == {"post-worker"}

\* Whether json.Marshal accepts the body
Bodies == {"marshalable", "unmarshalable"}

\* The entities published: structs of the shape of sample, Val string `json:"val"`,
\* and values json.Marshal rejects
Entities == {[model |-> m, Val |-> "val", marshal |-> b] : m \in ModelNames, b \in Bodies}

\* The changes passed to Modify: map[string]string
ChangeSets == {<<>>, [oldName |-> "newName"]}

\* Outcomes of sns.Publish and sqs.SendMessage: success, a transient failure,
\* and the failure whose text is errDataLimit
SendOutcomes == {"ok", "transient", "errDataLimit"}

\* Config.Env and Config.Hostname of the publisher tests
env == "dev"
Hostname == "http://localhost:4100"

\* arn := c.TopicARN
arn == "arn:aws:sns:local:000000000000:todolist-dev"

\* sqsURL := fmt.Sprintf("%s/", c.Hostname); a string is the sequence of its parts
sqsURL == <<Hostname, "/">>

\* publisher.camelCase and publisher.attributes are never set by NewPublisher
camelCase == FALSE
attributes == <<>>

\* consumer.attributes is never set by NewConsumer
consumerAttributes == <<>>

\* The host in the queue URLs the SQS service of the tests answers with; it is
\* the service's own, whatever Config.Hostname the session was made with
QueueHost == "http://local.goaws:4100"

\* *o.QueueUrl of sqs.GetQueueUrl for a queue name: the answer of the service
GetQueueUrl(name) == <<QueueHost, "/", "queue", "/">> \o name

\* c.QueueURL of the consumer of the queue post-worker: the answer of
\* GetQueueUrl for env-queueName, which is also the Config.QueueURL of getConsumer
QueueURL == GetQueueUrl(<<env, "-", "post-worker">>)

\* Outcomes of sqs.GetQueueUrl in consumer.Message
QueueUrlOutcomes == {"ok", "failed"}

\* strings.Title capitalises the action
Title(action) == <<"Title", action>>

eventCamel(n, action) == <<n, Title(action)>>

event(n, action) ==
    IF camelCase THEN <<n, Title(action)>> ELSE <<n, "_", action>>

\* defaultSNSAttributes / defaultSQSAttributes: for _, attr := range ca stores
\* under each title an entry whose DataType and StringValue point at the fields
\* of the loop variable attr, which is one variable for the whole loop: once the
\* loop is over every entry of a custom attribute reads the type and the value
\* of the last attribute of ca.  The entries of m that no title replaces stay
AddAttributes(m, ca) ==
    LET titles == {ca[i].Title : i \in DOMAIN ca}
        attr == ca[Len(ca)]
    IN  [k \in (DOMAIN m) \cup titles |->
            IF k \in titles
            THEN [DataType |-> attr.DataType, StringValue |-> attr.Value]
            ELSE m[k]]

\* The custom attributes without the route
defaultAttributesCustomOnly(e, ca) == AddAttributes(<<>>, ca)

defaultAttributes(e, ca) ==
    AddAttributes([k \in {"route"} |-> [DataType |-> "String", StringValue |-> e]], ca)

----
\* encoding/json as far as the publisher and the message use it.  A JSON object
\* is a function from its keys to its values.

\* The key of a struct field without a tag is its name; keys match fields
\* without regard to case
Fold(k) ==
    CASE k = "Body" -> "body"
      [] k = "Changes" -> "changes"
      [] k = "Notifier" -> "notifier"
      [] k = "Val" -> "val"
      [] OTHER -> k

\* type sample struct { Val string `json:"val"` }
sampleFields == <<[name |-> "Val", key |-> "val"]>>

\* modify without the tags on its fields
modifyFieldsUntagged == <<[name |-> "Notifier", key |-> "Notifier"],
                          [name |-> "Changes", key |-> "Changes"]>>

\* type modify struct { Notifier `json:"body"`; Changes interface{} `json:"changes"` }
modifyFields == <<[name |-> "Notifier", key |-> "body"],
                  [name |-> "Changes", key |-> "changes"]>>

\* the struct of DecodeModified: Body interface{}; Changes interface{}
decodeFields == <<[name |-> "Body", key |-> "Body"],
                  [name |-> "Changes", key |-> "Changes"]>>

FieldKeys(fields) == {fields[i].key : i \in DOMAIN fields}
FieldOfKey(fields, k) == (CHOOSE i \in DOMAIN fields : fields[i].key = k)

\* json.Marshal of a struct value v, given as a function of the field names
MarshalStruct(fields, v) ==
    [k \in FieldKeys(fields) |-> v[fields[FieldOfKey(fields, k)].name]]

\* json.Unmarshal of an object into a struct: a field takes the value of the
\* key that matches it and keeps its old value when there is none
UnmarshalStruct(fields, obj, old) ==
    [f \in {fields[i].name : i \in DOMAIN fields} |->
        LET key == fields[CHOOSE i \in DOMAIN fields : fields[i].name = f].key
            hits == {k \in DOMAIN obj : Fold(k) = Fold(key)}
        IN  IF hits = {} THEN old[f] ELSE obj[CHOOSE k \in hits : TRUE]]

\* json.Unmarshal of an object into a map: the keys of the object are stored
UnmarshalMap(obj, old) ==
    [k \in (DOMAIN old) \cup (DOMAIN obj) |-> IF k \in DOMAIN obj THEN obj[k] ELSE old[k]]

\* newModify(n, changes)
newModify(n, changes) == [kind |-> "modify", n |-> n, changes |-> changes]

Plain(n) == [kind |-> "entity", n |-> n, changes |-> <<>>]

\* json.Marshal(body) fails
MarshalFails(body) == body.n.marshal = "unmarshalable"

\* json.Marshal(body)
Marshal(body) ==
    IF body.kind = "modify"
    THEN MarshalStruct(modifyFields,
                       [Notifier |-> MarshalStruct(sampleFields, body.n),
                        Changes |-> body.changes])
    ELSE MarshalStruct(sampleFields, body.n)

\* message.DecodeModified(&res, &dch) with res a zero sample and dch an empty map
DecodeModified(payload) ==
    LET s == UnmarshalStruct(decodeFields, payload,
                             [Body |-> <<>>, Changes |-> <<>>])
    IN  [Body |-> UnmarshalStruct(sampleFields, s.Body, [Val |-> ""]),
         Changes |-> UnmarshalMap(s.Changes, <<>>)]

----
\* Publisher operations

\* NewPublisher: no send in flight
InitPub ==
    /\ VisibilityTimeout = 30
    /\ extensionLimit = 2
    /\ handlers = <<>>
    /\ regArgs = <<>>
    /\ mRoute = NoMessage
    /\ mErr = <<>>
    /\ pending = <<>>
    /\ runPc = "idle"
    /\ runResult = "none"
    /\ err = "none"
    /\ trace = <<>>
    /\ extPc = "none"
    /\ count = 0
    /\ extension = 0
    /\ extendCalls = <<>>
    /\ lateExtends = 0
    /\ deleteCalls = <<>>
    /\ logged = {}
    /\ callerPc = "running"
    /\ pubOps = 0
    /\ tasks = <<>>
    /\ NoPool
    /\ Attributes \in Configs
    /\ lastCall = NoCall
    /\ NoLib

NoInput == [built |-> FALSE]

\* &sns.PublishInput{...} and &sqs.SendMessageInput{...}
Input(body, e, dest) ==
    [built |-> TRUE, Message |-> Marshal(body),
     MessageAttributes |-> defaultAttributes(e, attributes), dest |-> dest]

\* A panic that nothing recovers ends the process, the caller and every goroutine
ProcessAlive ==
    /\ callerPc # "panic"
    /\ \A i \in DOMAIN tasks : tasks[i].pc # "panic"

\* The operation makes the first send itself before it returns
GoAfterFirstCall(fn, op, e, body, input) ==
    tasks' = Append(tasks, [fn |-> fn, op |-> op, event |-> e, body |-> body,
                            input |-> input, c |-> 0, retryCount |-> 0, calls |-> 1,
                            last |-> "transient", apis |-> {}, pc |-> "sleep"])

\* go p.send(body, e) and go p.sendDirectMessage(input, event): the goroutine
\* starts with no retryCount argument
Go(fn, op, e, body, input) ==
    tasks' = Append(tasks, [fn |-> fn, op |-> op, event |-> e, body |-> body,
                            input |-> input, c |-> 0, retryCount |-> 0, calls |-> 0,
                            last |-> "none", apis |-> {}, pc |-> "start"])

CanCall == ProcessAlive /\ pubOps < MaxPubOps

Op(name, n, action, changes, queue) ==
    [name |-> name, n |-> n, action |-> action, changes |-> changes, queue |-> queue]

Create ==
    /\ CanCall
    /\ \E n \in Entities :
         Go("send", Op("Create", n, "created", <<>>, ""),
            event(n.model, "created"), Plain(n), NoInput)
    /\ pubOps' = pubOps + 1
    /\ UNCHANGED <<cvars, poolvars, cfgvars, libvars, callerPc>>

Delete ==
    /\ CanCall
    /\ \E n \in Entities :
         Go("send", Op("Delete", n, "deleted", <<>>, ""),
            event(n.model, "deleted"), Plain(n), NoInput)
    /\ pubOps' = pubOps + 1
    /\ UNCHANGED <<cvars, poolvars, cfgvars, libvars, callerPc>>

Update ==
    /\ CanCall
    /\ \E n \in Entities :
         Go("send", Op("Update", n, "updated", <<>>, ""),
            event(n.model, "updated"), Plain(n), NoInput)
    /\ pubOps' = pubOps + 1
    /\ UNCHANGED <<cvars, poolvars, cfgvars, libvars, callerPc>>

\* the body is newModify(n, changes)
Modify ==
    /\ CanCall
    /\ \E n \in Entities, changes \in ChangeSets :
         Go("send", Op("Modify", n, "modified", changes, ""),
            event(n.model, "modified"), newModify(n, changes), NoInput)
    /\ pubOps' = pubOps + 1
    /\ UNCHANGED <<cvars, poolvars, cfgvars, libvars, callerPc>>

Dispatch ==
    /\ CanCall
    /\ \E n \in Entities, e \in DispatchEvents :
         Go("send", Op("Dispatch", n, e, <<>>, ""),
            event(n.model, e), Plain(n), NoInput)
    /\ pubOps' = pubOps + 1
    /\ UNCHANGED <<cvars, poolvars, cfgvars, libvars, callerPc>>

\* name := fmt.Sprintf("%s-%s", p.env, queue) without the environment
QueueNameBare(queue) == <<queue>>

\* name := fmt.Sprintf("%s-%s", p.env, queue)
QueueName(queue) == <<env, "-", queue>>

\* Message marshals the body itself; on a failure it calls p.logger.Println, and
\* p.logger is nil in a publisher made by NewPublisher
Message ==
    /\ CanCall
    /\ \E queue \in Queues, e \in MessageEvents, n \in Entities :
         IF MarshalFails(Plain(n))
         THEN /\ callerPc' = "panic"
              /\ UNCHANGED tasks
         ELSE /\ Go("sendDirectMessage", Op("Message", n, e, <<>>, queue), <<e>>,
                    Plain(n), Input(Plain(n), <<e>>, sqsURL \o QueueName(queue)))
              /\ UNCHANGED callerPc
    /\ pubOps' = pubOps + 1
    /\ UNCHANGED <<cvars, poolvars, cfgvars, libvars>>

RetriesExhaustedLate(c) == c > maxRetryCount + 1

\* if c > maxRetryCount { return }
RetriesExhausted(c) == c > maxRetryCount

SetTask(i, t) == tasks' = [tasks EXCEPT ![i] = t]

\* Every failure logged and retried
AfterSendRetryAll(out) == IF out = "ok" THEN "done" ELSE "sleep"

\* if err != nil { if err.Error() == errDataLimit.Error() { panic(...) }; log; sleep; retry }
AfterSend(out) ==
    CASE out = "ok" -> "done"
      [] out = "errDataLimit" -> "panic"
      [] OTHER -> "sleep"

\* sendDirectMessage(input, event, c): the check of c and the SendMessage call
sendDirectMessage(i) ==
    /\ ProcessAlive
    /\ tasks[i].fn = "sendDirectMessage"
    /\ tasks[i].pc = "start"
    /\ IF RetriesExhausted(tasks[i].c)
       THEN SetTask(i, [tasks[i] EXCEPT !.pc = "done"])
       ELSE /\ tasks[i].calls < MaxSendCalls
            /\ \E out \in SendOutcomes :
                 SetTask(i, [tasks[i] EXCEPT
                     !.calls = @ + 1,
                     !.last = out,
                     !.apis = @ \cup {"SendMessage"},
                     !.pc = AfterSend(out)])
    /\ UNCHANGED <<cvars, poolvars, cfgvars, libvars, callerPc, pubOps>>

\* time.Sleep(10 * time.Second); p.sendDirectMessage(input, event, c+1)
sendDirectMessage_retry(i) ==
    /\ ProcessAlive
    /\ tasks[i].fn = "sendDirectMessage"
    /\ tasks[i].pc = "sleep"
    /\ SetTask(i, [tasks[i] EXCEPT !.c = @ + 1, !.pc = "start"])
    /\ UNCHANGED <<cvars, poolvars, cfgvars, libvars, callerPc, pubOps>>

\* send(body, event): the check of c, json.Marshal with its panic, the
\* PublishInput, and retrier(snsInput, 0)
send(i) ==
    /\ ProcessAlive
    /\ tasks[i].fn = "send"
    /\ tasks[i].pc = "start"
    /\ IF RetriesExhausted(tasks[i].c)
       THEN SetTask(i, [tasks[i] EXCEPT !.pc = "done"])
       ELSE IF MarshalFails(tasks[i].body)
       THEN SetTask(i, [tasks[i] EXCEPT !.pc = "panic"])
       ELSE SetTask(i, [tasks[i] EXCEPT
                !.input = Input(tasks[i].body, tasks[i].event, arn),
                !.retryCount = 0,
                !.pc = "retrier"])
    /\ UNCHANGED <<cvars, poolvars, cfgvars, libvars, callerPc, pubOps>>

\* retrier(input, retryCount): the check of c (the c of send, not retryCount)
\* and the Publish call
retrier(i) ==
    /\ ProcessAlive
    /\ tasks[i].fn = "send"
    /\ tasks[i].pc = "retrier"
    /\ IF RetriesExhausted(tasks[i].c)
       THEN SetTask(i, [tasks[i] EXCEPT !.pc = "done"])
       ELSE /\ tasks[i].calls < MaxSendCalls
            /\ \E out \in SendOutcomes :
                 SetTask(i, [tasks[i] EXCEPT
                     !.calls = @ + 1,
                     !.last = out,
                     !.apis = @ \cup {"Publish"},
                     !.pc = AfterSend(out)])
    /\ UNCHANGED <<cvars, poolvars, cfgvars, libvars, callerPc, pubOps>>

\* time.Sleep(10 * time.Second); retrier(input, retryCount+1)
retrier_retry(i) ==
    /\ ProcessAlive
    /\ tasks[i].fn = "send"
    /\ tasks[i].pc = "sleep"
    /\ SetTask(i, [tasks[i] EXCEPT !.retryCount = @ + 1, !.pc = "retrier"])
    /\ UNCHANGED <<cvars, poolvars, cfgvars, libvars, callerPc, pubOps>>

\* QueueUrl and MessageAttributes of the consumer's SendMessageInput
ConsumerInput(body, e, dest) ==
    [built |-> TRUE, Message |-> Marshal(body),
     MessageAttributes |-> defaultAttributes(e, consumerAttributes), dest |-> dest]

\* consumer.MessageSelf(ctx, event, body): a marshal failure is logged with
\* log.Println and nothing is sent
MessageSelf ==
    /\ CanCall
    /\ \E e \in MessageEvents, n \in Entities :
         IF MarshalFails(Plain(n))
         THEN UNCHANGED tasks
         ELSE Go("consumer.sendDirectMessage", Op("MessageSelf", n, e, <<>>, ""), <<e>>,
                 Plain(n), ConsumerInput(Plain(n), <<e>>, QueueURL))
    /\ pubOps' = pubOps + 1
    /\ UNCHANGED <<cvars, poolvars, cfgvars, libvars, callerPc>>

\* consumer.Message(ctx, queue, event, body): a failure of GetQueueUrl or of
\* json.Marshal is logged and nothing is sent
consumer_Message ==
    /\ CanCall
    /\ \E queue \in Queues, e \in MessageEvents, n \in Entities, u \in QueueUrlOutcomes :
         IF u = "failed" \/ MarshalFails(Plain(n))
         THEN UNCHANGED tasks
         ELSE Go("consumer.sendDirectMessage", Op("consumer.Message", n, e, <<>>, queue),
                 <<e>>, Plain(n),
                 ConsumerInput(Plain(n), <<e>>, GetQueueUrl(QueueName(queue))))
    /\ pubOps' = pubOps + 1
    /\ UNCHANGED <<cvars, poolvars, cfgvars, libvars, callerPc>>

\* consumer.sendDirectMessage(ctx, input, event): the SendMessage call; any
\* failure is logged and followed by the sleep.  The function has no retry
\* counter and no test of the failure's text
consumer_sendDirectMessage(i) ==
    /\ ProcessAlive
    /\ tasks[i].fn = "consumer.sendDirectMessage"
    /\ tasks[i].pc = "start"
    /\ tasks[i].calls < MaxSendCalls
    /\ \E out \in SendOutcomes :
         SetTask(i, [tasks[i] EXCEPT
             !.calls = @ + 1,
             !.last = out,
             !.apis = @ \cup {"SendMessage"},
             !.pc = IF out = "ok" THEN "done" ELSE "sleep"])
    /\ UNCHANGED <<cvars, poolvars, cfgvars, libvars, callerPc, pubOps>>

\* time.Sleep(10 * time.Second); c.sendDirectMessage(ctx, input, event)
consumer_sendDirectMessage_retry(i) ==
    /\ ProcessAlive
    /\ tasks[i].fn = "consumer.sendDirectMessage"
    /\ tasks[i].pc = "sleep"
    /\ SetTask(i, [tasks[i] EXCEPT !.pc = "start"])
    /\ UNCHANGED <<cvars, poolvars, cfgvars, libvars, callerPc, pubOps>>

NextPub ==
    \/ Create
    \/ Delete
    \/ Update
    \/ Modify
    \/ Dispatch
    \/ Message
    \/ MessageSelf
    \/ consumer_Message
    \/ \E i \in DOMAIN tasks : consumer_sendDirectMessage(i)
    \/ \E i \in DOMAIN tasks : consumer_sendDirectMessage_retry(i)
    \/ \E i \in DOMAIN tasks : sendDirectMessage(i)
    \/ \E i \in DOMAIN tasks : sendDirectMessage_retry(i)
    \/ \E i \in DOMAIN tasks : send(i)
    \/ \E i \in DOMAIN tasks : retrier(i)
    \/ \E i \in DOMAIN tasks : retrier_retry(i)

SpecPub == InitPub /\ [][NextPub]_vars

----
\* Properties of the publisher's send paths

\* C9 as stated: for one event sent to the topic, Publish is called at most
\* maxRetryCount + 1 times.
C9_PublishCallsBounded ==
    \A i \in DOMAIN tasks :
        tasks[i].fn = "send" => tasks[i].calls <= maxRetryCount + 1

\* C10: for one message sent directly to a queue, SendMessage is called at most
\* maxRetryCount + 1 times; when every call failed transiently the goroutine
\* does not panic, and after the last of them it makes no further call.
C10_DirectSendCallsBounded ==
    \A i \in DOMAIN tasks :
        tasks[i].fn = "sendDirectMessage" =>
            /\ tasks[i].calls <= maxRetryCount + 1
            /\ tasks[i].last = "transient" => tasks[i].pc # "panic"
            /\ (tasks[i].calls = maxRetryCount + 1 /\ tasks[i].last = "transient")
                   => tasks[i].pc \in {"sleep", "start", "done"}
            /\ tasks[i].pc = "done" =>
                   (tasks[i].last = "ok" \/ tasks[i].c > maxRetryCount)

C10_Witness ==
    \E i \in DOMAIN tasks :
        /\ tasks[i].fn = "sendDirectMessage"
        /\ tasks[i].calls = maxRetryCount + 1
        /\ tasks[i].last = "transient"
        /\ tasks[i].pc = "done"

\* C11: on both send paths a failure whose text is that of errDataLimit is not
\* retried: the goroutine that received it has panicked, it is not asleep before
\* a retry and not about to call again, whatever number of calls came before.
C11_DataLimitNeverRetried ==
    \A i \in DOMAIN tasks :
        (tasks[i].fn \in {"send", "sendDirectMessage"} /\ tasks[i].last = "errDataLimit") =>
            /\ tasks[i].pc = "panic"
            /\ ~ProcessAlive

C11_Witness ==
    \E i \in DOMAIN tasks :
        /\ tasks[i].fn = "send"
        /\ tasks[i].last = "errDataLimit"
        /\ tasks[i].calls >= 2
        /\ tasks[i].calls < MaxSendCalls
        /\ tasks[i].pc = "panic"

\* C12: a publisher operation that starts a send returns with no backend call
\* made yet and leaves the sends in flight alone, and no step of a send
\* goroutine, whatever the outcome of its call, changes the caller's position.
C12_CallerNeverWaitsForSend ==
    [][ /\ pubOps' # pubOps =>
             \/ tasks' = tasks
             \/ /\ Len(tasks') = Len(tasks) + 1
                /\ SubSeq(tasks', 1, Len(tasks)) = tasks
                /\ tasks'[Len(tasks')].calls = 0
                /\ callerPc' = callerPc
        /\ pubOps' = pubOps => callerPc' = callerPc ]_vars

C12_Witness ==
    /\ callerPc = "running"
    /\ pubOps >= 1
    /\ \E i \in DOMAIN tasks :
         /\ tasks[i].fn = "send"
         /\ tasks[i].calls > maxRetryCount
         /\ tasks[i].last = "transient"

\* C13 as stated: a payload that cannot be marshalled never makes a send
\* goroutine panic and never makes the caller of the operation panic.
C13_MarshalFailureNeverPanics ==
    /\ callerPc # "panic"
    /\ \A i \in DOMAIN tasks :
         MarshalFails(tasks[i].body) => tasks[i].pc # "panic"

\* The action a topic operation appends to the model name
ActionOf(op) ==
    CASE op.name = "Create" -> "created"
      [] op.name = "Delete" -> "deleted"
      [] op.name = "Update" -> "updated"
      [] op.name = "Modify" -> "modified"
      [] OTHER -> op.action

\* C14: the route attribute of the input published for an entity with model name X
\* is the String X_created for Create, X_deleted for Delete, X_updated for
\* Update, X_modified for Modify and X_A for Dispatch with action A.
C14_RouteIsModelNameAndAction ==
    \A i \in DOMAIN tasks :
        (tasks[i].fn = "send" /\ tasks[i].input.built) =>
            /\ "route" \in DOMAIN tasks[i].input.MessageAttributes
            /\ tasks[i].input.MessageAttributes["route"] =
                   [DataType |-> "String",
                    StringValue |-> <<tasks[i].op.n.model, "_", ActionOf(tasks[i].op)>>]

C14_Witness ==
    \E i \in DOMAIN tasks :
        /\ tasks[i].op.name = "Dispatch"
        /\ tasks[i].op.n.model = "sample"
        /\ tasks[i].input.built
        /\ tasks[i].last = "ok"

\* C15: Message(queue, event, body) calls SendMessage only, never Publish, on
\* the queue whose name is the environment, a dash and the queue, and the route
\* attribute is the event as it was passed.
C15_MessageGoesToTheNamedQueueOnly ==
    \A i \in DOMAIN tasks :
        tasks[i].op.name = "Message" =>
            /\ tasks[i].apis \subseteq {"SendMessage"}
            /\ tasks[i].input.built
            /\ tasks[i].input.dest = <<Hostname, "/", env, "-", tasks[i].op.queue>>
            /\ tasks[i].input.MessageAttributes["route"].StringValue = <<tasks[i].op.action>>

C15_Witness ==
    \E i \in DOMAIN tasks :
        /\ tasks[i].op.name = "Message"
        /\ tasks[i].apis = {"SendMessage"}
        /\ tasks[i].last = "ok"

\* C16: DecodeModified applied to the payload that Modify(n, c) publishes gives a
\* body whose fields are those of n and a change set equal to c.
C16_ModifyRoundTrip ==
    \A i \in DOMAIN tasks :
        (tasks[i].op.name = "Modify" /\ tasks[i].input.built) =>
            /\ DecodeModified(tasks[i].input.Message).Body = [Val |-> tasks[i].op.n.Val]
            /\ DecodeModified(tasks[i].input.Message).Changes = tasks[i].op.changes

C16_Witness ==
    \E i \in DOMAIN tasks :
        /\ tasks[i].op.name = "Modify"
        /\ tasks[i].op.changes # <<>>
        /\ tasks[i].input.built
        /\ tasks[i].calls >= 1

\* C27 as stated: every custom attribute of the Config is among the attributes
\* of every message built for sending by the publisher or the consumer made
\* from that Config, with its datatype and value.
C27_CustomAttributesOnEveryMessage ==
    \A i \in DOMAIN tasks :
        tasks[i].input.built =>
            \A k \in DOMAIN Attributes :
                /\ Attributes[k].Title \in DOMAIN tasks[i].input.MessageAttributes
                /\ Attributes[k].Title # "route" =>
                     \E j \in k..Len(Attributes) :
                        tasks[i].input.MessageAttributes[Attributes[k].Title] =
                            [DataType |-> Attributes[j].DataType,
                             StringValue |-> Attributes[j].Value]

\* C29: every message built for sending, to the topic or to a queue, by the
\* publisher or the consumer, has the String attribute route, and its value is
\* the event of that send, whatever the custom attributes of the Config are.
C29_RouteOnEverySend ==
    \A i \in DOMAIN tasks :
        tasks[i].input.built =>
            /\ "route" \in DOMAIN tasks[i].input.MessageAttributes
            /\ tasks[i].input.MessageAttributes["route"] =
                   [DataType |-> "String", StringValue |-> tasks[i].event]

C29_Witness ==
    /\ \E k \in DOMAIN Attributes : Attributes[k].Title = "route"
    /\ \E i \in DOMAIN tasks :
         /\ tasks[i].fn = "consumer.sendDirectMessage"
         /\ tasks[i].input.built
         /\ tasks[i].last = "ok"

\* C30 as stated: for one message sent by the consumer, SendMessage is called at
\* most maxRetryCount + 1 times.
C30_ConsumerSendCallsBounded ==
    \A i \in DOMAIN tasks :
        tasks[i].fn = "consumer.sendDirectMessage" =>
            tasks[i].calls <= maxRetryCount + 1

----
\* Consume: the poll loop and the worker pool

MaxMsgs == 2

\* The function given to WithRecovery: func() {} as in TestRun, or one that calls recover()
Recoveries == {"noop", "recover"}

\* Handlers registered before Consume starts: test, err, a handler that panics
\* and the same under WithRecovery
PoolHandlers ==
    {<<"test">>, <<"err">>, <<"panics">>, Compose(<<"panics">>, <<"WithRecovery">>)}

\* Registries: a handler for post_published, and the handler test for
\* post_published and for the route ""
PoolRegistries ==
    {Put(<<>>, "post_published", h) : h \in PoolHandlers}
    \cup {Put(Put(<<>>, "", <<"test">>), "post_published", <<"test">>)}

\* Config.WorkerPool and Config.ExtensionLimit of the consumers whose pool is
\* followed: one worker with one extension allowed, two workers with none
PoolConfigs ==
    {[WorkerPool |-> 1, ExtensionLimit |-> 1], [WorkerPool |-> 2, ExtensionLimit |-> 0]}

\* MessageAttributes of a received message: nil, a map without the key route,
\* a map with the key route
ReceivedAttributes ==
    {[isNil |-> TRUE, map |-> <<>>],
     [isNil |-> FALSE,
      map |-> [k \in {"correlationId"} |-> [DataType |-> "String", StringValue |-> "id"]]],
     [isNil |-> FALSE, map |-> defaultAttributes("post_published", <<>>)]}

\* The outputs of one ReceiveMessage call with at most n messages
Batches(n) == SeqsUpTo(ReceivedAttributes, n)

\* The received message handed on as it came
NormalizeNothing(a) == a

\* if m.MessageAttributes == nil { m.MessageAttributes = defaultSQSAttributes("") }
\* if _, ok := m.MessageAttributes["route"]; !ok { m.MessageAttributes["route"] = String "" }
Normalize(a) ==
    LET m == IF a.isNil THEN defaultAttributes("", <<>>) ELSE a.map
    IN  [isNil |-> FALSE,
         map |-> IF "route" \in DOMAIN m THEN m
                 ELSE Put(m, "route", [DataType |-> "String", StringValue |-> ""])]

HasRoute(a) == ~a.isNil /\ "route" \in DOMAIN a.map

\* return *m.MessageAttributes["route"].StringValue
Route(a) == a.map["route"].StringValue

\* The composed handler called: WithRecovery defers recovery() and returns
\* fn(ctx, m); a panic of fn goes on through the closure unless recovery calls
\* recover(), and then the closure returns the zero error
RECURSIVE CallResult(_, _)
CallResult(h, rec) ==
    IF Len(h) = 1 THEN HandlerResult(h[1])
    ELSE LET r == CallResult(Tail(h), rec)
         IN  IF r = "panic" /\ Head(h) = "WithRecovery" /\ rec = "recover"
             THEN "nil"
             ELSE r

\* A consumer with its handlers registered, before Consume is called
InitPool ==
    /\ VisibilityTimeout = 30
    /\ \E c \in PoolConfigs :
         /\ workerPool = c.WorkerPool
         /\ extensionLimit = c.ExtensionLimit
    /\ handlers \in PoolRegistries
    /\ regArgs = <<>>
    /\ mRoute = NoMessage
    /\ mErr = <<>>
    /\ pending = <<>>
    /\ runPc = "idle"
    /\ runResult = "none"
    /\ err = "none"
    /\ trace = <<>>
    /\ extPc = "none"
    /\ count = 0
    /\ extension = 0
    /\ extendCalls = <<>>
    /\ lateExtends = 0
    /\ deleteCalls = <<>>
    /\ logged = {}
    /\ callerPc = "running"
    /\ pubOps = 0
    /\ tasks = <<>>
    \* the function given to WithRecovery, where a handler is wrapped in it
    /\ recovery \in IF Len(Lookup(handlers, "post_published")) > 1
                     THEN Recoveries ELSE {"noop"}
    /\ pollPc = "init"
    /\ lastPoll = NoPoll
    /\ recv = <<>>
    /\ sent = 0
    /\ wPc = <<>>
    /\ wMsg = <<>>
    /\ results = <<>>
    /\ printed = {}
    /\ NoConfig
    /\ NoLib

\* A panic that nothing recovers ends the process
PoolAlive == \A w \in DOMAIN wPc : wPc[w] # "panic"

\* One worker more than c.workerPool
NumWorkersOneMore(n) == n + 1

\* for w := 1; w <= c.workerPool; w++ { go c.worker(w, jobs) }
NumWorkers(n) == n

\* Consume: the jobs channel is made and the workers are started; each worker
\* blocks in for m := range messages
Consume ==
    /\ pollPc = "init"
    /\ wPc' = [w \in 1..NumWorkers(workerPool) |-> "idle"]
    /\ wMsg' = [w \in 1..NumWorkers(workerPool) |-> 0]
    /\ pollPc' = "receive"
    /\ UNCHANGED <<cvars, pvars, cfgvars, libvars, workerPool, recovery, lastPoll, recv, sent, results, printed>>

\* The poll loop returns after a failed receive
AfterReceiveErrorStop == "stopped"

\* if err != nil { log; time.Sleep(10 * time.Second); continue }
AfterReceiveError == "sleep"

\* c.Logger().Println("%s , retrying in 10s", ErrGetMessage.Context(err).Error()):
\* Println prints its operands one after the other, the format among them
PollFailureLog == "%s , retrying in 10s ErrGetMessage"

\* Consume: one ReceiveMessage call, which fails or returns some messages
Consume_receive ==
    /\ PoolAlive
    /\ pollPc = "receive"
    /\ \/ /\ lastPoll' = [failed |-> TRUE, n |-> 0]
          /\ printed' = printed \cup {PollFailureLog}
          /\ pollPc' = AfterReceiveError
          /\ UNCHANGED recv
       \/ \E b \in Batches(MaxMsgs - Len(recv)) :
            /\ lastPoll' = [failed |-> FALSE, n |-> Len(b)]
            /\ recv' = recv \o b
            /\ pollPc' = IF b = <<>> THEN "receive" ELSE "dispatch"
            /\ UNCHANGED printed
    /\ UNCHANGED <<cvars, pvars, cfgvars, libvars, workerPool, recovery, sent, wPc, wMsg, results>>

\* Consume: the sleep after a failed receive is over, continue
Consume_continue ==
    /\ PoolAlive
    /\ pollPc = "sleep"
    /\ pollPc' = "receive"
    /\ UNCHANGED <<cvars, pvars, cfgvars, libvars, workerPool, recovery, lastPoll, recv, sent, wPc, wMsg,
                   results, printed>>

\* The message handed over again
NextMessageAgain(n) == IF n = 0 THEN 1 ELSE n

\* for _, m := range output.Messages: the message after the n handed over
NextMessage(n) == n + 1

\* A jobs channel that takes a message while no worker waits for one
AcceptsAlways(w) == TRUE

\* jobs := make(chan *message): the send completes only with a worker that
\* waits in range messages
Accepts(w) == wPc[w] = "idle"

\* Consume: jobs <- newMessage(m) for the next message of the output, its
\* attributes completed, taken by a worker that waits in range messages; the
\* channel has no buffer
Consume_send(w) ==
    /\ PoolAlive
    /\ pollPc = "dispatch"
    /\ Accepts(w)
    /\ sent' = NextMessage(sent)
    /\ wMsg' = [wMsg EXCEPT ![w] = sent']
    /\ wPc' = [wPc EXCEPT ![w] = "run"]
    /\ results' = Put(results, sent',
                      [attrs |-> Normalize(recv[sent']), handler |-> <<>>,
                       result |-> "none", deleted |-> "no", sig |-> "none",
                       ext |-> "none", count |-> 0])
    /\ pollPc' = IF sent' = Len(recv) THEN "receive" ELSE "dispatch"
    /\ UNCHANGED <<cvars, pvars, cfgvars, libvars, workerPool, recovery, lastPoll, recv, printed>>

\* c.delete(m): a failure of DeleteMessage is logged and returned
DeleteOutcomes == {"ok", "failed"}

\* run for the envelope of worker w: m.Route() panics on a message without the
\* route attribute; the lookup of the handler; with a handler, go c.extend(ctx, m)
pool_run_lookup(w) ==
    /\ PoolAlive
    /\ wPc[w] = "run"
    /\ LET id == wMsg[w]
           a == results[id].attrs
       IN  IF ~HasRoute(a)
           THEN /\ wPc' = [wPc EXCEPT ![w] = "panic"]
                /\ UNCHANGED results
           ELSE LET ok == Route(a) \in DOMAIN handlers
                IN  /\ wPc' = [wPc EXCEPT ![w] = AfterLookup(ok)]
                    /\ results' =
                         IF ok
                         THEN [results EXCEPT ![id].handler = Lookup(handlers, Route(a)),
                                              ![id].ext = ExtendStarted]
                         ELSE results
    /\ UNCHANGED <<cvars, pvars, cfgvars, libvars, workerPool, recovery, pollPc, lastPoll, recv,
                   sent, wMsg, printed>>

\* The worker returning from its loop when run returned an error
AfterRunEndOnError(e) == IF e = "nil" THEN "idle" ELSE "ended"

\* if err := c.run(m); err != nil { log }: the range loop goes on either way
AfterRun(e) == "idle"

\* run: h(ctx, m) returns to run.  A panic that is not recovered ends the
\* process; an error goes to m.ErrorResponse and is returned by run to the
\* worker, which logs it and waits for the next envelope; nil goes to m.Success
\* and run goes on to c.delete(m).  ErrorResponse and Success start the
\* goroutine that sends on m.err
pool_run_return(w) ==
    /\ PoolAlive
    /\ wPc[w] = "invoke"
    /\ LET id == wMsg[w]
           e == CallResult(results[id].handler, recovery)
       IN  IF e = "panic"
           THEN /\ wPc' = [wPc EXCEPT ![w] = "panic"]
                /\ results' = [results EXCEPT ![id].result = e]
                /\ UNCHANGED printed
           ELSE /\ results' = [results EXCEPT ![id].result = e, ![id].sig = "pending"]
                /\ IF AfterHandler(e) = "done"
                   THEN /\ printed' = WorkerLog(printed, e)
                        /\ wPc' = [wPc EXCEPT ![w] = AfterRun(e)]
                   ELSE /\ wPc' = [wPc EXCEPT ![w] = AfterHandler(e)]
                        /\ UNCHANGED printed
    /\ UNCHANGED <<cvars, pvars, cfgvars, libvars, workerPool, recovery, pollPc, lastPoll, recv,
                   sent, wMsg>>

\* c.delete(m) of worker w: the DeleteMessage call is answered; a failure is
\* logged by delete and returned by run to the worker, which logs what run
\* returned and waits for the next envelope
pool_delete(w) ==
    /\ PoolAlive
    /\ wPc[w] = "delete"
    /\ \E d \in DeleteOutcomes :
         LET e == IF d = "ok" THEN "nil" ELSE "ErrUnableToDelete"
             l == IF d = "ok" THEN printed ELSE printed \cup {"ErrUnableToDelete"}
         IN  /\ results' = [results EXCEPT ![wMsg[w]].deleted = d]
             /\ IF AfterDelete(d = "ok") = "done"
                THEN /\ printed' = WorkerLog(l, e)
                     /\ wPc' = [wPc EXCEPT ![w] = AfterRun(e)]
                ELSE /\ printed' = l
                     /\ wPc' = [wPc EXCEPT ![w] = AfterDelete(d = "ok")]
    /\ UNCHANGED <<cvars, pvars, cfgvars, libvars, workerPool, recovery, pollPc, lastPoll, recv,
                   sent, wMsg>>

\* What run returned for a message it is through with: the error of the
\* handler, the error of the delete, or nil
RunResult(r) ==
    IF r.result \notin {"none", "nil"} THEN r.result
    ELSE IF r.deleted = "failed" THEN "ErrUnableToDelete"
    ELSE "nil"

\* The goroutine of ErrorResponse/Success of message id performs m.err <- v;
\* the channel of the message has room for the one value
pool_signal_send(id) ==
    /\ PoolAlive
    /\ results[id].sig = "pending"
    /\ results' = [results EXCEPT ![id].sig = "buffered"]
    /\ UNCHANGED <<cvars, pvars, cfgvars, libvars, workerPool, recovery, pollPc, lastPoll, recv,
                   sent, wPc, wMsg, printed>>

\* extend of message id: the head of the loop, the limit check and count++
pool_extend_loop(id) ==
    /\ PoolAlive
    /\ results[id].ext = "loop"
    /\ IF LimitReached(results[id].count, extensionLimit)
       THEN /\ printed' = printed \cup {"ErrMessageProcessing"}
            /\ results' = [results EXCEPT ![id].ext = "done"]
       ELSE /\ results' = [results EXCEPT ![id].ext = "sleep", ![id].count = @ + 1]
            /\ UNCHANGED printed
    /\ UNCHANGED <<cvars, pvars, cfgvars, libvars, workerPool, recovery, pollPc, lastPoll, recv,
                   sent, wPc, wMsg>>

\* extend of message id: the sleep is over; select on m.err with a default branch
pool_extend_select(id) ==
    /\ PoolAlive
    /\ results[id].ext = "sleep"
    /\ results' =
         IF results[id].sig = "buffered"
         THEN [results EXCEPT ![id].sig = "received", ![id].ext = "done"]
         ELSE [results EXCEPT ![id].ext = "call"]
    /\ UNCHANGED <<cvars, pvars, cfgvars, libvars, workerPool, recovery, pollPc, lastPoll, recv,
                   sent, wPc, wMsg, printed>>

\* extend of message id: the ChangeMessageVisibility call; a failure is logged
\* and ends the loop
pool_extend_call(id) ==
    /\ PoolAlive
    /\ results[id].ext = "call"
    /\ \E ok \in BOOLEAN :
         /\ printed' = IF ok THEN printed ELSE printed \cup {"ErrUnableToExtend"}
         /\ results' = [results EXCEPT ![id].ext = AfterExtendCall(ok)]
    /\ UNCHANGED <<cvars, pvars, cfgvars, libvars, workerPool, recovery, pollPc, lastPoll, recv,
                   sent, wPc, wMsg>>

NextPool ==
    \/ Consume
    \/ Consume_receive
    \/ Consume_continue
    \/ \E w \in DOMAIN wPc : Consume_send(w)
    \/ \E w \in DOMAIN wPc : pool_run_lookup(w)
    \/ \E w \in DOMAIN wPc : pool_run_return(w)
    \/ \E w \in DOMAIN wPc : pool_delete(w)
    \/ \E id \in DOMAIN results : pool_signal_send(id)
    \/ \E id \in DOMAIN results : pool_extend_loop(id)
    \/ \E id \in DOMAIN results : pool_extend_select(id)
    \/ \E id \in DOMAIN results : pool_extend_call(id)

SpecPool == InitPool /\ [][NextPool]_vars

----
\* Properties of the poll loop and the worker pool

\* The received messages that are inside run: handed to a worker, no error
\* returned by the handler and no delete answered
InRun == {id \in DOMAIN results :
            results[id].result \in {"none", "nil"} /\ results[id].deleted = "no"}

\* The workers inside run
Busy == {w \in DOMAIN wPc : wPc[w] \in {"run", "invoke", "delete"}}

\* C17: a failed receive does not end the poll loop: the step that fails logs
\* the failure and leaves the loop asleep with nothing enqueued and every worker
\* and envelope as it was, the step after the sleep leads to the next receive,
\* and the loop is never anywhere but in a receive, a sleep or a hand-off.  A
\* receive that returns n messages, after failures as after a success, keeps
\* all n behind those received before and takes the loop to the hand-off,
\* which it leaves only when every received message is with a worker; a
\* hand-over gives the next received message, none skipped; and at the hand-off
\* the hand-over can be made whenever a worker waits.
C17_PollFailureNeverFatal ==
    /\ [][  /\ (pollPc = "receive" /\ pollPc' \notin {"receive", "dispatch"}) =>
                   /\ pollPc' = "sleep"
                   /\ lastPoll'.failed
                   /\ PollFailureLog \in printed'
                   /\ <<recv, sent, wPc, wMsg, results>>' = <<recv, sent, wPc, wMsg, results>>
            /\ (pollPc = "sleep" /\ pollPc' # "sleep") =>
                   /\ pollPc' = "receive"
                   /\ <<recv, sent, wPc, wMsg, results>>' = <<recv, sent, wPc, wMsg, results>>
            /\ pollPc' \in {"receive", "sleep", "dispatch"}
            /\ Len(recv') >= Len(recv)
            /\ SubSeq(recv', 1, Len(recv)) = recv
            /\ (pollPc = "receive" /\ pollPc' = "dispatch") =>
                   /\ ~lastPoll'.failed
                   /\ lastPoll'.n >= 1
                   /\ Len(recv') = Len(recv) + lastPoll'.n
            /\ (lastPoll' # lastPoll /\ ~lastPoll'.failed) =>
                   Len(recv') = Len(recv) + lastPoll'.n
            /\ recv' # recv =>
                   /\ pollPc = "receive" /\ pollPc' = "dispatch"
                   /\ ~lastPoll'.failed
                   /\ lastPoll'.n = Len(recv') - Len(recv)
                   /\ <<sent, wPc, wMsg, results>>' = <<sent, wPc, wMsg, results>>
            /\ (pollPc = "dispatch" /\ pollPc' # "dispatch") =>
                   (pollPc' = "receive" /\ sent' = Len(recv'))
            /\ sent' # sent =>
                   /\ sent' = sent + 1
                   /\ sent' \in DOMAIN recv
                   /\ results'[sent'].attrs = Normalize(recv[sent']) ]_vars
    /\ [](  (pollPc = "dispatch" /\ PoolAlive /\ \E w \in DOMAIN wPc : wPc[w] = "idle")
           => ENABLED (\E w \in DOMAIN wPc : Consume_send(w)) )

\* A receive failed and was logged; the last receive, made after it, returned
\* every message there is, at least one; all of them were handed over and run
\* is through with each: deleted, or its handler's error returned
C17_Witness ==
    /\ PollFailureLog \in printed
    /\ ~lastPoll.failed
    /\ lastPoll.n >= 1
    /\ lastPoll.n = Len(recv)
    /\ sent = Len(recv)
    /\ DOMAIN results = 1..Len(recv)
    /\ InRun = {}
    /\ results[Len(recv)].deleted = "ok"
    /\ \A w \in DOMAIN wPc : wPc[w] = "idle"

\* C18: every envelope handed to a worker has the route attribute; a message
\* received with no attribute map or without the key route has the String
\* route "", one received with a route keeps its attributes; no worker panics
\* reading the route, and a message that came without a route is given to the
\* handler registered for "" when there is one.
C18_EveryEnvelopeHasARoute ==
    /\ \A id \in DOMAIN results :
         /\ HasRoute(results[id].attrs)
         /\ HasRoute(recv[id]) => results[id].attrs = recv[id]
         /\ ~HasRoute(recv[id]) =>
              /\ results[id].attrs.map["route"] = [DataType |-> "String", StringValue |-> ""]
              /\ \A k \in DOMAIN recv[id].map :
                   results[id].attrs.map[k] = recv[id].map[k]
              /\ ("" \in DOMAIN handlers /\ id \notin InRun) =>
                   results[id].handler = handlers[""]
              /\ ("" \notin DOMAIN handlers /\ id \notin InRun) =>
                   (results[id].handler = <<>> /\ results[id].deleted # "no")
    /\ \A w \in DOMAIN wPc :
         wPc[w] = "panic" => results[wMsg[w]].result = "panic"

C18_Witness ==
    /\ "" \in DOMAIN handlers
    /\ \E i, j \in DOMAIN results :
         /\ recv[i].isNil
         /\ ~recv[j].isNil /\ ~HasRoute(recv[j])
         /\ results[i].handler = <<"test">> /\ results[i].deleted = "ok"
         /\ results[j].handler = <<"test">> /\ results[j].deleted = "ok"

\* C19: once Consume has started there are exactly workerPool workers, at most
\* workerPool messages are inside run, and the workers that are in run hold
\* different messages, one each.
C19_AtMostWorkerPoolInRun ==
    pollPc # "init" =>
        /\ DOMAIN wPc = 1..workerPool
        /\ Cardinality(InRun) <= workerPool
        /\ InRun = {wMsg[w] : w \in Busy}
        /\ Cardinality(Busy) = Cardinality(InRun)

C19_Witness ==
    /\ workerPool >= 2
    /\ Cardinality(InRun) = workerPool
    /\ \A w \in DOMAIN wPc : wPc[w] = "run"

\* C20 as stated: no worker is ended by the panic of a handler that was
\* registered under WithRecovery.
C20_RecoveredHandlerNeverEndsWorker ==
    \A w \in DOMAIN wPc :
        (wPc[w] = "panic" /\ results[wMsg[w]].result = "panic") =>
            "WithRecovery" \notin {results[wMsg[w]].handler[i] :
                                     i \in DOMAIN results[wMsg[w]].handler}

\* C22: a worker that leaves run without a panic, whether run returned nil, the
\* error of the handler or the error of the delete, has logged the error and
\* waits for the next envelope, and the step leaves the poll loop where it
\* was; no worker and no poll loop is ever in another position than those of
\* their loops.
C22_ErrorsEndNeitherWorkerNorPollLoop ==
    [][ /\ \A w \in DOMAIN wPc :
             (w \in Busy /\ w \notin Busy' /\ wPc'[w] # "panic") =>
                 /\ wPc'[w] = "idle"
                 /\ pollPc' = pollPc
                 /\ RunResult(results'[wMsg[w]]) # "nil" =>
                       RunResult(results'[wMsg[w]]) \in printed'
        /\ \A w \in DOMAIN wPc' :
             wPc'[w] \in {"idle", "run", "invoke", "delete", "panic"}
        /\ pollPc' \in {"receive", "sleep", "dispatch"} ]_vars

C22_Witness ==
    /\ workerPool = 1
    /\ 2 \in DOMAIN results
    /\ results[1].result = "ErrGetMessage"
    /\ results[2].deleted = "failed"
    /\ wPc[1] = "idle"
    /\ pollPc = "receive"

\* Message id is held by exactly one worker, which is at pc and leaves it
Holders(id, pc) ==
    /\ Cardinality({w \in DOMAIN wPc : wPc[w] # "idle" /\ wMsg[w] = id}) = 1
    /\ \A w \in DOMAIN wPc : wMsg[w] = id => (wPc[w] = pc /\ wPc'[w] # pc)

\* C35: the messages of a poll are handed over one by one in the order
\* received, each in a step of its own to one worker that was waiting, and that
\* step is the only way a worker comes to run; no receive is made while a
\* received message is not handed over; and run acts once on a message: what it
\* found as its handler, what the handler returned and how the delete was
\* answered are each set once, by a step of the one worker that holds it, and
\* its attributes never change.
C35_EachMessageToOneWorkerOnce ==
    [][ /\ sent' \in {sent, sent + 1}
        /\ sent' <= Len(recv')
        /\ DOMAIN results' = 1..sent'
        /\ pollPc' \in {"receive", "sleep"} => sent' = Len(recv')
        /\ sent' = sent + 1 =>
              /\ sent' \notin DOMAIN results
              /\ \E w \in DOMAIN wPc :
                    /\ wPc[w] = "idle" /\ wPc'[w] = "run" /\ wMsg'[w] = sent'
                    /\ \A v \in DOMAIN wPc \ {w} : wPc'[v] = wPc[v] /\ wMsg'[v] = wMsg[v]
        /\ \A w \in DOMAIN wPc :
              (wPc[w] # "run" /\ wPc'[w] = "run") => (sent' = sent + 1 /\ wMsg'[w] = sent')
        /\ \A id \in DOMAIN results :
              /\ results'[id].attrs = results[id].attrs
              /\ results'[id].handler # results[id].handler =>
                    (results[id].handler = <<>> /\ Holders(id, "run"))
              /\ results'[id].result # results[id].result =>
                    (results[id].result = "none" /\ Holders(id, "invoke"))
              /\ results'[id].deleted # results[id].deleted =>
                    (results[id].deleted = "no" /\ Holders(id, "delete")) ]_vars

\* Two messages of one poll went to the two workers, the second worker taking
\* the first message, and both were handled and deleted
C35_Witness ==
    /\ lastPoll.n = 2
    /\ sent = 2
    /\ DOMAIN wPc = {1, 2}
    /\ wMsg[2] = 1 /\ wMsg[1] = 2
    /\ \A id \in {1, 2} : results[id].result = "nil" /\ results[id].deleted = "ok"
    /\ \A w \in DOMAIN wPc : wPc[w] = "idle"

\* C39: a receive call is made only when every message received before is with
\* a worker, and while every worker is inside run the poll loop stays at the
\* hand-off: no step hands a message over, makes a receive call or moves the loop.
C39_HandoffBlocksThePollLoop ==
    [][ /\ lastPoll' # lastPoll => sent = Len(recv)
        /\ recv' # recv => sent = Len(recv)
        /\ (pollPc = "dispatch" /\ Busy = DOMAIN wPc) =>
              <<pollPc, sent, recv, lastPoll>>' = <<pollPc, sent, recv, lastPoll>> ]_vars

\* Every worker is inside run and a further message of the same poll waits at
\* the hand-off
C39_Witness ==
    /\ DOMAIN wPc # {}
    /\ Busy = DOMAIN wPc
    /\ pollPc = "dispatch"
    /\ sent < Len(recv)
    /\ sent = Cardinality(DOMAIN wPc)

----
\* One envelope through run with a handler that was registered before the
\* receive: the handlers of the tests under any adapters, with a function f of
\* WithMiddleware that returns nil or an error

RunHandlerFns == {"test", "err"}

\* The arguments of the RegisterHandler call
RunRegistrations ==
    {[h |-> h, adapters |-> adapters, f |-> f] :
        h \in RunHandlerFns, adapters \in AdapterLists, f \in MiddlewareResults}

InitRun ==
    /\ VisibilityTimeout \in VisibilityTimeouts
    /\ extensionLimit \in 0..MaxLimit
    /\ \E r \in RunRegistrations :
         /\ handlers = Put(<<>>, "post_published", Compose(<<r.h>>, r.adapters))
         /\ regArgs = Put(<<>>, "post_published", r)
    /\ mRoute = NoMessage
    /\ mErr = <<>>
    /\ pending = <<>>
    /\ runPc = "idle"
    /\ runResult = "none"
    /\ err = "none"
    /\ trace = <<>>
    /\ extPc = "none"
    /\ count = 0
    /\ extension = 0
    /\ extendCalls = <<>>
    /\ lateExtends = 0
    /\ deleteCalls = <<>>
    /\ logged = {}
    /\ callerPc = "running"
    /\ pubOps = 0
    /\ tasks = <<>>
    /\ NoPool
    /\ NoConfig
    /\ NoLib

NextRun ==
    \/ worker
    \/ run_lookup
    \/ run_invoke
    \/ run_return
    \/ delete
    \/ signal_send
    \/ extend_loop
    \/ extend_select
    \/ extend_call

SpecRun == InitRun /\ [][NextRun]_vars

\* The extend goroutine is scheduled: its sleep ends and its calls return.
\* Nothing is assumed of run, of the handler or of the signalling goroutines
SpecRunFair ==
    /\ SpecRun
    /\ WF_vars(extend_loop)
    /\ WF_vars(extend_select)
    /\ WF_vars(extend_call)

----
\* One envelope through run with a handler that panics or the handler test,
\* under any adapters, with a function given to WithRecovery that calls
\* recover() or does not

RecHandlerFns == {"test", "panics"}

RecRegistrations ==
    {[h |-> h, adapters |-> adapters, f |-> "nil"] :
        h \in RecHandlerFns, adapters \in AdapterLists}

InitRec ==
    /\ VisibilityTimeout \in VisibilityTimeouts
    /\ extensionLimit \in 0..MaxLimit
    /\ \E r \in RecRegistrations :
         /\ handlers = Put(<<>>, "post_published", Compose(<<r.h>>, r.adapters))
         /\ regArgs = Put(<<>>, "post_published", r)
    /\ mRoute = NoMessage
    /\ mErr = <<>>
    /\ pending = <<>>
    /\ runPc = "idle"
    /\ runResult = "none"
    /\ err = "none"
    /\ trace = <<>>
    /\ extPc = "none"
    /\ count = 0
    /\ extension = 0
    /\ extendCalls = <<>>
    /\ lateExtends = 0
    /\ deleteCalls = <<>>
    /\ logged = {}
    /\ callerPc = "running"
    /\ pubOps = 0
    /\ tasks = <<>>
    /\ workerPool = 30
    /\ recovery \in Recoveries
    /\ pollPc = "init"
    /\ lastPoll = NoPoll
    /\ recv = <<>>
    /\ sent = 0
    /\ wPc = <<>>
    /\ wMsg = <<>>
    /\ results = <<>>
    /\ printed = {}
    /\ NoConfig
    /\ NoLib

SpecRec == InitRec /\ [][NextRun]_vars

----
\* Properties of run, the adapters, delete and extend

IsCallOfF(e) == e = Ev("call", "f")

\* C21: in a call of a handler registered under WithMiddleware(f), every call
\* of f is followed by the call of the handler function, there is one call of f
\* for each WithMiddleware, and the result of the call is the result of the
\* handler function, whether f returns nil or an error.
C21_MiddlewareAlwaysDelegates ==
    (Invoked /\ "WithMiddleware" \in {regArgs[mRoute].adapters[i] :
                                        i \in DOMAIN regArgs[mRoute].adapters}) =>
        /\ Len(SelectSeq(trace, IsCallOfF))
             = Len(SelectSeq(regArgs[mRoute].adapters,
                             LAMBDA a : a = "WithMiddleware"))
        /\ \A i \in DOMAIN trace :
             IsCallOfF(trace[i]) =>
                \E j \in DOMAIN trace :
                    j > i /\ trace[j] = Ev("call", regArgs[mRoute].h)
        /\ err # "none" => err = HandlerResult(regArgs[mRoute].h)

C21_Witness ==
    /\ Invoked
    /\ regArgs[mRoute].f = "ErrNoRoute"
    /\ regArgs[mRoute].adapters = <<"WithRecovery", "WithMiddleware">>
    /\ regArgs[mRoute].h = "test"
    /\ err = "nil"
    /\ RunReturned
    /\ deleteCalls = <<TRUE>>

\* C23: after a handler error run returns that error and every completion
\* signal of the envelope carries it; no signal exists before the handler
\* returned, and at no time is there more than one write of the completion
\* signal made or under way.
C23_SignalWrittenAtMostOnce ==
    /\ (RunReturned /\ err \notin {"none", "nil"}) => runResult = err
    /\ err # "none" =>
         \A i \in DOMAIN (pending \o mErr) : (pending \o mErr)[i] = err
    /\ err = "none" => (pending = <<>> /\ mErr = <<>>)
    /\ Len(pending) + Len(mErr) <= 1

\* The handler err returned ErrGetMessage, run returned it without a delete, and
\* the signal with the error is in the channel
C23_Witness ==
    /\ RunReturned
    /\ HasHandler
    /\ regArgs[mRoute].h = "err"
    /\ runResult = "ErrGetMessage"
    /\ mErr = <<"ErrGetMessage">>
    /\ pending = <<>>
    /\ deleteCalls = <<>>

\* C24: run makes at most one DeleteMessage call for an envelope; when the call
\* fails, run is over, its result is ErrUnableToDelete and the error was logged.
C24_DeleteFailureReportedNotRetried ==
    /\ Len(deleteCalls) <= 1
    /\ (deleteCalls # <<>> /\ ~deleteCalls[1]) =>
         /\ RunReturned
         /\ runResult = "ErrUnableToDelete"
         /\ "ErrUnableToDelete" \in logged

C24_Witness ==
    /\ HasHandler
    /\ err = "nil"
    /\ deleteCalls = <<FALSE>>
    /\ runResult = "ErrUnableToDelete"

\* C25: once an extend-lease call has failed the extend goroutine is over and
\* no further extend-lease call is made, and the step in which the call fails
\* changes nothing of run, of the handler's result or of the completion signal.
C25_ExtendFailureEndsTheLoop ==
    [][ /\ "ErrUnableToExtend" \in logged' => extPc' = "done"
        /\ "ErrUnableToExtend" \in logged => extendCalls' = extendCalls
        /\ ("ErrUnableToExtend" \in logged' /\ "ErrUnableToExtend" \notin logged) =>
              UNCHANGED <<runPc, runResult, err, trace, pending, mErr, deleteCalls>> ]_vars

C25_Witness ==
    /\ "ErrUnableToExtend" \in logged
    /\ extensionLimit >= 2
    /\ Len(extendCalls) = 1
    /\ RunReturned
    /\ runResult = "nil"
    /\ deleteCalls = <<TRUE>>

\* C26: with the extension limit 0 no extend-lease call is made: the extend
\* goroutine never sleeps and never gets to the call.
C26_LimitZeroTurnsExtensionOff ==
    extensionLimit = 0 =>
        /\ extendCalls = <<>>
        /\ extPc \in {"none", "loop", "done"}
        /\ count = 0

C26_Witness ==
    /\ extensionLimit = 0
    /\ HasHandler
    /\ extPc = "done"
    /\ RunReturned
    /\ err = "nil"
    /\ extendCalls = <<>>

----
\* context.Context and the dispatcher stored in it

MaxCtx == 3

\* dispatcherKey = contextKey("dispatcher"), and a key of the application: the
\* string "dispatcher", which is of another type and so another key
dispatcherKey == [type |-> "contextKey", s |-> "dispatcher"]
appKey == [type |-> "string", s |-> "dispatcher"]

\* The Publisher values given to WithDispatcher: two publishers and the nil
\* interface value
NilPublisher == "nil"
Publishers == {"p1", "p2"}

\* The values an application stores under its own key
AppValues == {"text"}

\* The index of the outermost pair with the key
OutermostPair(c, key) ==
    LET I == {i \in DOMAIN c : c[i].key = key}
    IN  IF I = {} THEN 0 ELSE CHOOSE i \in I : \A j \in I : i <= j

\* ctx.Value(key) walks from the innermost WithValue outwards and stops at the
\* first pair with the key: the index of that pair, 0 when there is none
InnermostPair(c, key) ==
    LET I == {i \in DOMAIN c : c[i].key = key}
    IN  IF I = {} THEN 0 ELSE CHOOSE i \in I : \A j \in I : i >= j

\* ctx.Value(dispatcherKey).(Publisher): the assertion fails on a missing value
\* and on the nil interface value
AssertPublisher(c) ==
    LET i == InnermostPair(c, dispatcherKey)
    IN  IF i = 0 \/ c[i].val = NilPublisher
        THEN [ok |-> FALSE, p |-> NilPublisher]
        ELSE [ok |-> TRUE, p |-> c[i].val]

\* A goroutine that panicked in MustDispatcher makes no further call
CtxAlive == ~lookup.panicked

\* WithDispatcher(ctx, pub): context.WithValue(ctx, dispatcherKey, pub)
WithDispatcher ==
    /\ CtxAlive
    /\ Len(ctx) < MaxCtx
    /\ \E pub \in Publishers \cup {NilPublisher} :
         ctx' = Append(ctx, [key |-> dispatcherKey, val |-> pub])
    /\ UNCHANGED <<cvars, pvars, poolvars, cfgvars, newvars, stubvars, lookup>>

\* context.WithValue(ctx, key, v) of the application with its own key
WithValue ==
    /\ CtxAlive
    /\ Len(ctx) < MaxCtx
    /\ \E v \in AppValues : ctx' = Append(ctx, [key |-> appKey, val |-> v])
    /\ UNCHANGED <<cvars, pvars, poolvars, cfgvars, newvars, stubvars, lookup>>

\* Dispatcher(ctx)
Dispatcher ==
    /\ CtxAlive
    /\ LET a == AssertPublisher(ctx)
       IN  lookup' = [fn |-> "Dispatcher", ctx |-> ctx, p |-> a.p,
                      err |-> IF a.ok THEN "nil" ELSE "ErrUndefinedPublisher",
                      panicked |-> FALSE]
    /\ UNCHANGED <<cvars, pvars, poolvars, cfgvars, newvars, stubvars, ctx>>

\* MustDispatcher(ctx)
MustDispatcher ==
    /\ CtxAlive
    /\ LET a == AssertPublisher(ctx)
       IN  lookup' = [fn |-> "MustDispatcher", ctx |-> ctx, p |-> a.p,
                      err |-> "nil", panicked |-> ~a.ok]
    /\ UNCHANGED <<cvars, pvars, poolvars, cfgvars, newvars, stubvars, ctx>>

\* context.Background() in a program whose consumer and Config are not used
InitCtx ==
    /\ VisibilityTimeout = 30
    /\ extensionLimit = 2
    /\ handlers = <<>>
    /\ regArgs = <<>>
    /\ mRoute = NoMessage
    /\ mErr = <<>>
    /\ pending = <<>>
    /\ runPc = "idle"
    /\ runResult = "none"
    /\ err = "none"
    /\ trace = <<>>
    /\ extPc = "none"
    /\ count = 0
    /\ extension = 0
    /\ extendCalls = <<>>
    /\ lateExtends = 0
    /\ deleteCalls = <<>>
    /\ logged = {}
    /\ callerPc = "running"
    /\ pubOps = 0
    /\ tasks = <<>>
    /\ NoPool
    /\ NoConfig
    /\ NoLib

NextCtx == WithDispatcher \/ WithValue \/ Dispatcher \/ MustDispatcher

SpecCtx == InitCtx /\ [][NextCtx]_vars

\* C31: where the latest WithDispatcher call on the context gave a publisher p,
\* Dispatcher returns p and no error and MustDispatcher returns p; on a context
\* without a dispatcher (no WithDispatcher call, or the latest one with a nil
\* Publisher) Dispatcher returns no publisher and ErrUndefinedPublisher, and
\* MustDispatcher panics.
C31_DispatcherLookup ==
    lookup.fn # "none" =>
        LET c == lookup.ctx
            has == \E i \in DOMAIN c :
                      /\ c[i].key = dispatcherKey
                      /\ c[i].val \in Publishers
                      /\ \A j \in (i + 1)..Len(c) : c[j].key # dispatcherKey
        IN  /\ has =>
                /\ \E i \in DOMAIN c :
                      /\ c[i] = [key |-> dispatcherKey, val |-> lookup.p]
                      /\ \A j \in (i + 1)..Len(c) : c[j].key # dispatcherKey
                /\ lookup.err = "nil"
                /\ ~lookup.panicked
            /\ ~has =>
                /\ lookup.p = NilPublisher
                /\ lookup.fn = "Dispatcher" =>
                      lookup.err = "ErrUndefinedPublisher" /\ ~lookup.panicked
                /\ lookup.fn = "MustDispatcher" => lookup.panicked

\* MustDispatcher returned the publisher of the later of two WithDispatcher
\* calls, with a value of the application stored after them
C31_Witness ==
    /\ lookup.fn = "MustDispatcher"
    /\ lookup.p = "p2"
    /\ ~lookup.panicked
    /\ lookup.ctx = <<[key |-> dispatcherKey, val |-> "p1"],
                      [key |-> dispatcherKey, val |-> "p2"],
                      [key |-> appKey, val |-> "text"]>>

----
\* sqstesting: StubPublisher and StubConsumer

MaxStubCalls == 2

\* SentMessage{QueueName, Event, Body}
SentMessage(queue, e, body) == [QueueName |-> queue, Event |-> e, Body |-> body]

\* A call made on a stub: the method and its arguments
StubCall(stub, name, n, e, queue, changes) ==
    [stub |-> stub, name |-> name, n |-> n, event |-> e, queue |-> queue,
     changes |-> changes]

\* The event without the model name
StubEventBare(n, action) == <<action>>

\* fmt.Sprintf("%s_%s", n.ModelName(), action)
StubEvent(n, action) == <<n.model, "_", action>>

CanCallStub == Len(stubCalls) < MaxStubCalls

\* The stub publisher's topic methods: the message goes to DispatcherMessages
\* and its event to EventList
StubDispatch(call, e) ==
    /\ stubPublisher' =
           [stubPublisher EXCEPT
               !.DispatcherMessages = Append(@, SentMessage(<<>>, e, call.n)),
               !.EventList = Append(@, e)]
    /\ stubCalls' = Append(stubCalls, call)
    /\ UNCHANGED <<cvars, pvars, poolvars, cfgvars, newvars, ctxvars, stubConsumer>>

StubPublisher_Create ==
    /\ CanCallStub
    /\ \E n \in Entities :
         StubDispatch(StubCall("publisher", "Create", n, "", "", <<>>),
                      StubEvent(n, "created"))

StubPublisher_Delete ==
    /\ CanCallStub
    /\ \E n \in Entities :
         StubDispatch(StubCall("publisher", "Delete", n, "", "", <<>>),
                      StubEvent(n, "deleted"))

StubPublisher_Update ==
    /\ CanCallStub
    /\ \E n \in Entities :
         StubDispatch(StubCall("publisher", "Update", n, "", "", <<>>),
                      StubEvent(n, "updated"))

\* the changes are not recorded
StubPublisher_Modify ==
    /\ CanCallStub
    /\ \E n \in Entities, changes \in ChangeSets :
         StubDispatch(StubCall("publisher", "Modify", n, "", "", changes),
                      StubEvent(n, "modified"))

StubPublisher_Dispatch ==
    /\ CanCallStub
    /\ \E n \in Entities, e \in DispatchEvents :
         StubDispatch(StubCall("publisher", "Dispatch", n, e, "", <<>>),
                      StubEvent(n, e))

\* StubPublisher.Message(queue, event, body)
StubPublisher_Message ==
    /\ CanCallStub
    /\ \E queue \in Queues, e \in MessageEvents, n \in Entities :
         /\ stubPublisher' =
                [stubPublisher EXCEPT
                    !.DirectMessages = Append(@, SentMessage(<<queue>>, <<e>>, n)),
                    !.EventList = Append(@, <<e>>)]
         /\ stubCalls' =
                Append(stubCalls, StubCall("publisher", "Message", n, e, queue, <<>>))
    /\ UNCHANGED <<cvars, pvars, poolvars, cfgvars, newvars, ctxvars, stubConsumer>>

\* QueueName: "self"
SelfQueue == <<"self">>

\* StubConsumer.MessageSelf(ctx, event, body)
StubConsumer_MessageSelf ==
    /\ CanCallStub
    /\ \E e \in MessageEvents, n \in Entities :
         /\ stubConsumer' =
                [stubConsumer EXCEPT
                    !.DirectMessages = Append(@, SentMessage(SelfQueue, <<e>>, n)),
                    !.EventList = Append(@, <<e>>)]
         /\ stubCalls' =
                Append(stubCalls, StubCall("consumer", "MessageSelf", n, e, "", <<>>))
    /\ UNCHANGED <<cvars, pvars, poolvars, cfgvars, newvars, ctxvars, stubPublisher>>

\* StubConsumer.Message(ctx, queue, event, body)
StubConsumer_Message ==
    /\ CanCallStub
    /\ \E queue \in Queues, e \in MessageEvents, n \in Entities :
         /\ stubConsumer' =
                [stubConsumer EXCEPT
                    !.DirectMessages = Append(@, SentMessage(<<queue>>, <<e>>, n)),
                    !.EventList = Append(@, <<e>>)]
         /\ stubCalls' =
                Append(stubCalls, StubCall("consumer", "Message", n, e, queue, <<>>))
    /\ UNCHANGED <<cvars, pvars, poolvars, cfgvars, newvars, ctxvars, stubPublisher>>

\* NewStubDispatcher() and NewStubConsumer() in a test
InitStub == InitCtx

NextStub ==
    \/ StubPublisher_Create
    \/ StubPublisher_Delete
    \/ StubPublisher_Update
    \/ StubPublisher_Modify
    \/ StubPublisher_Dispatch
    \/ StubPublisher_Message
    \/ StubConsumer_MessageSelf
    \/ StubConsumer_Message

SpecStub == InitStub /\ [][NextStub]_vars

\* The route the publisher, or the consumer, puts on the message of the same call
PublisherRoute(call) ==
    CASE call.name = "Create" -> event(call.n.model, "created")
      [] call.name = "Delete" -> event(call.n.model, "deleted")
      [] call.name = "Update" -> event(call.n.model, "updated")
      [] call.name = "Modify" -> event(call.n.model, "modified")
      [] call.name = "Dispatch" -> event(call.n.model, call.event)
      [] OTHER -> <<call.event>>

\* The calls made on one of the stubs, in call order
CallsOn(stub) == SelectSeq(stubCalls, LAMBDA c : c.stub = stub)

IsTopicCall(c) == c.name \in {"Create", "Delete", "Update", "Modify", "Dispatch"}

IsDirectCall(c) == ~IsTopicCall(c)

\* The queue name a direct call is recorded under
RecordedQueue(c) == IF c.name = "MessageSelf" THEN <<"self">> ELSE <<c.queue>>

\* C32: each stub has one EventList entry per call made on it, in call order,
\* and the entry is the route the publisher derives for the same call; the topic
\* calls are in DispatcherMessages and the direct calls in DirectMessages, each
\* in call order with the same event, a MessageSelf under the queue name self and
\* a Message under the queue given.
C32_StubsRecordEveryCall ==
    LET P == CallsOn("publisher")
        C == CallsOn("consumer")
        PT == SelectSeq(P, IsTopicCall)
        PD == SelectSeq(P, IsDirectCall)
    IN  /\ stubPublisher.EventList = [k \in 1..Len(P) |-> PublisherRoute(P[k])]
        /\ stubConsumer.EventList = [k \in 1..Len(C) |-> PublisherRoute(C[k])]
        /\ [k \in 1..Len(PT) |-> stubPublisher.DispatcherMessages[k].Event]
               = [k \in 1..Len(PT) |-> PublisherRoute(PT[k])]
        /\ Len(stubPublisher.DispatcherMessages) = Len(PT)
        /\ Len(stubPublisher.DirectMessages) = Len(PD)
        /\ \A k \in 1..Len(PD) :
              /\ stubPublisher.DirectMessages[k].Event = PublisherRoute(PD[k])
              /\ stubPublisher.DirectMessages[k].QueueName = RecordedQueue(PD[k])
        /\ Len(stubConsumer.DirectMessages) = Len(C)
        /\ \A k \in 1..Len(C) :
              /\ stubConsumer.DirectMessages[k].Event = PublisherRoute(C[k])
              /\ stubConsumer.DirectMessages[k].QueueName = RecordedQueue(C[k])

\* A Modify and then a MessageSelf were recorded
C32_Witness ==
    /\ Len(stubCalls) = 2
    /\ stubCalls[1].name = "Modify"
    /\ stubCalls[2].name = "MessageSelf"
    /\ stubPublisher.EventList = <<<<"sample", "_", "modified">>>>
    /\ stubConsumer.DirectMessages[1].QueueName = <<"self">>

----
\* NewConsumer and the consumer's logger

MaxWorkers == 2

\* The Configs given to NewConsumer: each value unset (0, nil) or set
ConfigTimeouts == {0} \cup VisibilityTimeouts
ConfigWorkerPools == 0..MaxWorkers
ConfigExtensionLimits ==
    {[isNil |-> TRUE, v |-> 0]} \cup {[isNil |-> FALSE, v |-> l] : l \in 0..MaxLimit}
ConfigLoggers == {"nil", "custom"}

NewConsumerConfigs ==
    [VisibilityTimeout : ConfigTimeouts, WorkerPool : ConfigWorkerPools,
     ExtensionLimit : ConfigExtensionLimits, Logger : ConfigLoggers]

\* VisibilityTimeout: 30; if c.VisibilityTimeout != 0 { ... }
VisibilityTimeoutOf(c) == IF c.VisibilityTimeout # 0 THEN c.VisibilityTimeout ELSE 30

\* workerPool: 30; if c.WorkerPool != 0 { ... }
WorkerPoolOf(c) == IF c.WorkerPool # 0 THEN c.WorkerPool ELSE 30

\* An ExtensionLimit of 0 taken for one that was not given
ExtensionLimitOfNonZero(c) ==
    IF ~c.ExtensionLimit.isNil /\ c.ExtensionLimit.v # 0 THEN c.ExtensionLimit.v ELSE 2

\* extensionLimit: 2; if c.ExtensionLimit != nil { ... }
ExtensionLimitOf(c) == IF ~c.ExtensionLimit.isNil THEN c.ExtensionLimit.v ELSE 2

\* if c.Logger == nil { cons.logger = &defaultLogger{} }: the only assignment
\* to cons.logger
LoggerOf(c) == IF c.Logger = "nil" THEN "default" ELSE "nil"

\* NewConsumer(c, queueName); newSession or GetQueueUrl may fail, and then no
\* consumer is returned
NewConsumer ==
    /\ newPc = "config"
    /\ \/ /\ newPc' = "built"
          /\ VisibilityTimeout' = VisibilityTimeoutOf(config)
          /\ workerPool' = WorkerPoolOf(config)
          /\ extensionLimit' = ExtensionLimitOf(config)
          /\ logger' = LoggerOf(config)
       \/ /\ newPc' = "failed"
          /\ UNCHANGED <<VisibilityTimeout, workerPool, extensionLimit, logger>>
    /\ UNCHANGED <<handlers, regArgs, mRoute, mErr, pending, runPc, runResult, err,
                   trace, extPc, count, extension, extendCalls, lateExtends,
                   deleteCalls, logged, pvars, recovery, pollPc, lastPoll, recv, sent,
                   wPc, wMsg, results, printed, cfgvars, config, logOut, ctxvars,
                   stubvars>>

\* c.Logger(): the default logger where c.logger is nil
Logger == IF logger = "nil" THEN "default" ELSE logger

\* c.Logger().Println(...), as Consume, worker, delete and extend call it
Logger_Println ==
    /\ newPc = "built"
    /\ logOut' = logOut \cup {Logger}
    /\ UNCHANGED <<cvars, pvars, poolvars, cfgvars, config, newPc, logger, ctxvars,
                   stubvars>>

\* A Config before NewConsumer is called with it
InitNew ==
    /\ config \in NewConsumerConfigs
    /\ newPc = "config"
    /\ logger = "nil"
    /\ logOut = {}
    /\ VisibilityTimeout = 0
    /\ extensionLimit = 0
    /\ workerPool = 0
    /\ handlers = <<>>
    /\ regArgs = <<>>
    /\ mRoute = NoMessage
    /\ mErr = <<>>
    /\ pending = <<>>
    /\ runPc = "idle"
    /\ runResult = "none"
    /\ err = "none"
    /\ trace = <<>>
    /\ extPc = "none"
    /\ count = 0
    /\ extension = 0
    /\ extendCalls = <<>>
    /\ lateExtends = 0
    /\ deleteCalls = <<>>
    /\ logged = {}
    /\ callerPc = "running"
    /\ pubOps = 0
    /\ tasks = <<>>
    /\ recovery = "noop"
    /\ pollPc = "init"
    /\ lastPoll = NoPoll
    /\ recv = <<>>
    /\ sent = 0
    /\ wPc = <<>>
    /\ wMsg = <<>>
    /\ results = <<>>
    /\ printed = {}
    /\ NoConfig
    /\ NoContext
    /\ NoStubs

NextNew == NewConsumer \/ Logger_Println

SpecNew == InitNew /\ [][NextNew]_vars

\* C33: the consumer NewConsumer returns has VisibilityTimeout 30, workerPool 30
\* and extensionLimit 2 where the Config leaves the value unset (0, 0, nil), and
\* the Config's value where VisibilityTimeout or WorkerPool is not 0 and where
\* ExtensionLimit is given, 0 included.
C33_ConstructionDefaults ==
    newPc = "built" =>
        /\ config.VisibilityTimeout = 0 => VisibilityTimeout = 30
        /\ config.VisibilityTimeout # 0 => VisibilityTimeout = config.VisibilityTimeout
        /\ config.WorkerPool = 0 => workerPool = 30
        /\ config.WorkerPool # 0 => workerPool = config.WorkerPool
        /\ config.ExtensionLimit.isNil => extensionLimit = 2
        /\ ~config.ExtensionLimit.isNil => extensionLimit = config.ExtensionLimit.v

\* A consumer built from a Config with ExtensionLimit 0, a WorkerPool and no
\* VisibilityTimeout
C33_Witness ==
    /\ newPc = "built"
    /\ config.ExtensionLimit = [isNil |-> FALSE, v |-> 0]
    /\ extensionLimit = 0
    /\ config.WorkerPool = 1
    /\ workerPool = 1
    /\ config.VisibilityTimeout = 0
    /\ VisibilityTimeout = 30

\* C34 as stated: a consumer built from a Config with a custom Logger writes its
\* log output to that logger and to no other, and one built from a Config
\* without a Logger writes to the default logger.
C34_CustomLoggerReceivesTheOutput ==
    newPc = "built" =>
        logOut \subseteq {IF config.Logger = "nil" THEN "default" ELSE config.Logger}

----
\* Properties of the order of run and of the end of extend

\* The last closure of the handler call has returned
HandlerCallOver == trace # <<>> /\ trace[Len(trace)].op \in {"return", "exit"}

\* C36: for an envelope with a handler, the extend goroutine is started before
\* the handler is called; a completion signal exists, written or under way, only
\* once the handler has returned; and a delete call is made only once the
\* handler has returned, so never while the handler runs.
C36_RunProtocolOrder ==
    HasHandler =>
        /\ trace # <<>> => extPc # "none"
        /\ runPc \in {"handler", "delete", "done"} => extPc # "none"
        /\ (pending # <<>> \/ mErr # <<>>) => (err # "none" /\ HandlerCallOver)
        /\ deleteCalls # <<>> => (err # "none" /\ HandlerCallOver)
        /\ runPc \in {"invoke", "handler"} => (deleteCalls = <<>> /\ err = "none")

\* The handler under two adapters returned nil, the signal was read by the
\* extend goroutine after one extend call, and the message was deleted
C36_Witness ==
    /\ HasHandler
    /\ Len(regArgs[mRoute].adapters) = 2
    /\ RunReturned
    /\ err = "nil"
    /\ deleteCalls = <<TRUE>>
    /\ extPc = "done"
    /\ Len(extendCalls) = 1
    /\ pending = <<>> /\ mErr = <<>>
    /\ "ErrMessageProcessing" \notin logged

\* The number of times the extend goroutine was at the head of its loop
Iterations == count + (IF "ErrMessageProcessing" \in logged THEN 1 ELSE 0)

\* C37: the extend goroutine of an envelope passes the head of its loop at most
\* extensionLimit + 1 times and makes at most extensionLimit calls, and once
\* started it ends, whatever run and the handler do and whether the calls
\* succeed or fail.
C37_ExtendTerminates ==
    /\ [](count <= extensionLimit /\ Iterations <= extensionLimit + 1
          /\ Len(extendCalls) <= count)
    /\ (extPc = "loop") ~> (extPc = "done")

\* The goroutine ended at the limit after extensionLimit calls that succeeded,
\* while the handler has not returned
C37_Witness ==
    /\ extPc = "done"
    /\ extensionLimit >= 1
    /\ Len(extendCalls) = extensionLimit
    /\ Iterations = extensionLimit + 1
    /\ "ErrUnableToExtend" \notin logged
    /\ runPc = "handler"

\* C38: a goroutine of ErrorResponse or Success that has not yet sent is never
\* blocked: its send can be made in every state, whether the extend goroutine
\* is still in its loop, has ended or was never going to read; and a signal
\* that nobody reads stays in the channel's buffer.
C38_SignalWriteNeverBlocks ==
    /\ pending # <<>> => ENABLED signal_send
    /\ Len(pending) + Len(mErr) <= 1

\* run returned after a delete, the extend goroutine had ended at its limit, and
\* the success signal was sent although nobody reads it
C38_Witness ==
    /\ RunReturned
    /\ deleteCalls # <<>>
    /\ extPc = "done"
    /\ "ErrMessageProcessing" \in logged
    /\ pending = <<>>
    /\ mErr = <<"nil">>

----
\* Properties of a recovered panic

UnderWithRecovery ==
    "WithRecovery" \in {regArgs[mRoute].adapters[i] : i \in DOMAIN regArgs[mRoute].adapters}

\* C40: where the handler function panics under WithRecovery and the function
\* given to WithRecovery recovers, the handler call returns nil to run, the
\* process goes on, the only completion signal is the success signal, which
\* exists until the extend goroutine has read it, and run makes one delete call.
C40_RecoveredPanicIsSuccess ==
    (HasHandler /\ regArgs[mRoute].h = "panics" /\ UnderWithRecovery
     /\ recovery = "recover") =>
        /\ runPc # "panic"
        /\ runPc \in {"delete", "done"} =>
              /\ err = "nil"
              /\ pending \o mErr \in {<<>>, <<"nil">>}
              /\ extPc # "done" => pending \o mErr = <<"nil">>
        /\ RunReturned =>
              /\ Len(deleteCalls) = 1
              /\ runResult = (IF deleteCalls[1] THEN "nil" ELSE "ErrUnableToDelete")

\* The handler panicked under WithMiddleware inside WithRecovery, the panic was
\* recovered, the success signal is in the channel and the message was deleted
C40_Witness ==
    /\ HasHandler
    /\ regArgs[mRoute].h = "panics"
    /\ regArgs[mRoute].adapters = <<"WithRecovery", "WithMiddleware">>
    /\ recovery = "recover"
    /\ Ev("panic", "panics") \in {trace[i] : i \in DOMAIN trace}
    /\ RunReturned
    /\ runResult = "nil"
    /\ mErr = <<"nil">>
    /\ deleteCalls = <<TRUE>>

====
